---- MODULE Spec2Model ----
\* Virtual-memory subsystem of the os4 kernel: physical frame allocator,
\* SV39 page table, MapArea / MemorySet and the mmap / munmap system calls.
EXTENDS Integers, Sequences, FiniteSets, TLC

VARIABLES
    current,          \* StackFrameAllocator.current
    end,              \* StackFrameAllocator.end
    recycled,         \* StackFrameAllocator.recycled (Vec used as a stack)
    region,           \* the [l, r) handed to init, <<>> before init
    mem,              \* physical memory: ppn -> page seen as a PageTableEntry array
    page_table,       \* PageTable { root_ppn, frames }
    pt_alive,         \* a PageTable / MemorySet has been constructed
    areas,            \* MemorySet.areas
    held,             \* FrameTrackers owned by a caller of frame_alloc (a Vec<FrameTracker>)
    mapped,           \* history: the vpns PageTable::map was called on and returned
    overflow_checks,  \* build profile: arithmetic overflow panics (debug) or wraps (release)
    cells,            \* the guards of FRAME_ALLOCATOR and KERNEL_SPACE, and the cell waited on
    panic,            \* "none", or the reason the kernel stopped
    op,               \* the last call: name and arguments
    ret               \* what the last call returned

vars == <<current, end, recycled, region, mem, page_table, pt_alive, areas,
          held, mapped, overflow_checks, cells, panic, op, ret>>

----------------------------------------------------------------------------
\* Bounds of the model

\* physical page numbers 0 .. MaxPpn - 1 exist
MaxPpn == 13
\* the allocator is initialised over [l, l + k) with k <= MaxFrames
MaxFrames == 7
\* at most this many FrameTrackers are kept by a direct caller of frame_alloc
MaxHeld == 1
\* at most this many MapAreas are recorded in one MemorySet
MaxAreas == 2
\* the recycled stack holds at most this many entries in the raw allocator runs
MaxRecycled == 3

----------------------------------------------------------------------------
\* Program constants

PAGE_SIZE == 4096

\* Option::None of a page number
NONE == -1

RECURSIVE BitOr(_, _)
BitOr(a, b) ==
    IF a = 0 THEN b
    ELSE IF b = 0 THEN a
    ELSE (IF (a % 2) + (b % 2) > 0 THEN 1 ELSE 0) + 2 * BitOr(a \div 2, b \div 2)

RECURSIVE Pow2(_)
Pow2(n) == IF n = 0 THEN 1 ELSE 2 * Pow2(n - 1)

Contains(s, x) == \E i \in 1..Len(s) : s[i] = x

----------------------------------------------------------------------------
\* frame_allocator.rs: StackFrameAllocator
\* An allocator value is a record [current, end, recycled].

StackFrameAllocator_new == [current |-> 0, end |-> 0, recycled |-> <<>>]

StackFrameAllocator_init(a, l, r) == [a EXCEPT !.current = l, !.end = r]

\* alloc without the pop: the top of the recycled stack stays in place
alloc_no_pop(a) ==
    IF Len(a.recycled) > 0
    THEN [a |-> a, ppn |-> a.recycled[Len(a.recycled)]]
    ELSE IF a.current = a.end
    THEN [a |-> a, ppn |-> NONE]
    ELSE [a |-> [a EXCEPT !.current = a.current + 1], ppn |-> a.current]

\* alloc that takes the oldest recycled number instead of the newest
alloc_fifo(a) ==
    IF Len(a.recycled) > 0
    THEN [a |-> [a EXCEPT !.recycled = Tail(a.recycled)], ppn |-> Head(a.recycled)]
    ELSE IF a.current = a.end
    THEN [a |-> a, ppn |-> NONE]
    ELSE [a |-> [a EXCEPT !.current = a.current + 1], ppn |-> a.current]

\* returns the allocator after the call and the page number (NONE for None)
alloc(a) ==
    IF Len(a.recycled) > 0
    THEN [a   |-> [a EXCEPT !.recycled = SubSeq(a.recycled, 1, Len(a.recycled) - 1)],
          ppn |-> a.recycled[Len(a.recycled)]]
    ELSE IF a.current = a.end
    THEN [a |-> a, ppn |-> NONE]
    ELSE [a |-> [a EXCEPT !.current = a.current + 1], ppn |-> (a.current + 1) - 1]

\* the validity check of dealloc without the search of the recycled stack
dealloc_panics_no_search(a, ppn) == ppn >= a.current

\* the validity check of dealloc: TRUE when dealloc panics
dealloc_panics(a, ppn) == ppn >= a.current \/ Contains(a.recycled, ppn)

\* dealloc that advances current as well
dealloc_moves_current(a, ppn) ==
    [a EXCEPT !.recycled = Append(a.recycled, ppn), !.current = a.current + 1]

\* the recycle step of dealloc (after the validity check passed)
dealloc(a, ppn) == [a EXCEPT !.recycled = Append(a.recycled, ppn)]

----------------------------------------------------------------------------
\* The kernel state the operations below transform: the allocator, physical
\* memory, one PageTable and the MapAreas of one MemorySet.

World ==
    [current |-> current, end |-> end, recycled |-> recycled, mem |-> mem,
     root_ppn |-> page_table.root_ppn, frames |-> page_table.frames,
     areas |-> areas, panic |-> panic]

AllocOf(w) == [current |-> w.current, end |-> w.end, recycled |-> w.recycled]

WithAlloc(w, a) ==
    [w EXCEPT !.current = a.current, !.end = a.end, !.recycled = a.recycled]

Panic(w, why) == [w EXCEPT !.panic = why]

\* `let v = ...;` followed by the rest of the function body
With(v, F(_)) == F(v)

\* a page whose bytes are all zero: every PageTableEntry of it is empty
EmptyPage == [i \in {} |-> 0]

\* FrameTracker::new: the page is cleared
FrameTracker_new(m, ppn) == [m EXCEPT ![ppn] = EmptyPage]

\* frame_alloc: FRAME_ALLOCATOR.alloc().map(FrameTracker::new)
frame_alloc(w) ==
    With(alloc(AllocOf(w)), LAMBDA r :
        IF r.ppn = NONE
        THEN [w |-> w, ppn |-> NONE]
        ELSE [w   |-> [WithAlloc(w, r.a) EXCEPT !.mem = FrameTracker_new(w.mem, r.ppn)],
              ppn |-> r.ppn])

\* frame_dealloc, reached from Drop for FrameTracker
frame_dealloc(w, ppn) ==
    IF dealloc_panics(AllocOf(w), ppn)
    THEN Panic(w, "dealloc")
    ELSE WithAlloc(w, dealloc(AllocOf(w), ppn))

----------------------------------------------------------------------------
\* address.rs

\* the width of a physical page number in an entry and in a token (44 in the
\* hardware format), scaled to what TLC's integers hold
PPN_BITS == 16

\* the width of usize (64 in the hardware), scaled to what TLC's
\* integers hold: addresses are 0 .. USIZE_MOD - 1
USIZE_BITS == 24

USIZE_MOD == Pow2(USIZE_BITS)

VirtAddr_floor(va) == va \div PAGE_SIZE

\* `self.0 - 1` underflows for address 0 and `+ PAGE_SIZE` overflows for the
\* addresses above USIZE_MOD - PAGE_SIZE: a panic with overflow checks on
ceil_panics(va) ==
    overflow_checks /\ (va < 1 \/ va - 1 + PAGE_SIZE >= USIZE_MOD)

\* (self.0 - 1 + PAGE_SIZE) / PAGE_SIZE; without overflow checks the two
\* steps wrap: address 0 gives PAGE_SIZE - 1 before the division
VirtAddr_ceil(va) ==
    ((((va - 1) % USIZE_MOD) + PAGE_SIZE) % USIZE_MOD) \div PAGE_SIZE

\* PhysAddr::floor and PhysAddr::ceil: the same two expressions
PhysAddr_floor(pa) == pa \div PAGE_SIZE

PhysAddr_ceil(pa) ==
    ((((pa - 1) % USIZE_MOD) + PAGE_SIZE) % USIZE_MOD) \div PAGE_SIZE

\* VirtPageNum::indexes: the three 9-bit indices, level 0 first
indexes(vpn) ==
    << (vpn \div (512 * 512)) % 512, (vpn \div 512) % 512, vpn % 512 >>

----------------------------------------------------------------------------
\* page_table.rs: PTEFlags and PageTableEntry (an entry is its bits)

PTE_V == 1
PTE_R == 2
PTE_W == 4
PTE_X == 8
PTE_U == 16

PageTableEntry_new(ppn, flags) == BitOr(ppn * 1024, flags)

PageTableEntry_empty == 0

\* the mask (1 << 44) - 1 of ppn(), plus one
PPN_MOD == Pow2(PPN_BITS)

pte_ppn(bits) == (bits \div 1024) % PPN_MOD

pte_flags(bits) == bits % 256

is_valid(bits) == (pte_flags(bits) \div PTE_V) % 2 # 0

\* PhysPageNum::get_pte_array()[idx], read and written
ReadPte(m, ppn, idx) == IF idx \in DOMAIN m[ppn] THEN m[ppn][idx] ELSE 0

WritePte(m, ppn, idx, bits) ==
    [m EXCEPT ![ppn] =
        IF bits = 0
        THEN [i \in (DOMAIN m[ppn]) \ {idx} |-> m[ppn][i]]
        ELSE [i \in (DOMAIN m[ppn]) \cup {idx} |-> IF i = idx THEN bits ELSE m[ppn][i]]]

----------------------------------------------------------------------------
\* page_table.rs: PageTable

\* PageTable::new: the root frame
PageTable_new(w) ==
    With(frame_alloc(w), LAMBDA fa :
        IF fa.ppn = NONE
        THEN Panic(w, "oom")
        ELSE [fa.w EXCEPT !.root_ppn = fa.ppn, !.frames = <<fa.ppn>>])

\* the branch `!pte.is_valid()` of find_pte_create without the push of the
\* frame to frames
install_node_untracked(w, ppn, idx) ==
    With(frame_alloc(w), LAMBDA fa :
        IF fa.ppn = NONE
        THEN Panic(w, "oom")
        ELSE [fa.w EXCEPT
                 !.mem = WritePte(fa.w.mem, ppn, idx, PageTableEntry_new(fa.ppn, PTE_V))])

\* the branch `!pte.is_valid()` of find_pte_create: a frame is allocated, the
\* entry idx of node ppn is set to it and the frame is kept in frames
install_node(w, ppn, idx) ==
    With(frame_alloc(w), LAMBDA fa :
        IF fa.ppn = NONE
        THEN Panic(w, "oom")
        ELSE [fa.w EXCEPT
                 !.mem = WritePte(fa.w.mem, ppn, idx, PageTableEntry_new(fa.ppn, PTE_V)),
                 !.frames = Append(fa.w.frames, fa.ppn)])

\* one pass of the loop of find_pte_create at level 0 or 1: the entry idx of
\* node ppn is followed, after a node was installed when it is not valid
walk_create(w, ppn, idx) ==
    With(IF is_valid(ReadPte(w.mem, ppn, idx)) THEN w ELSE install_node(w, ppn, idx),
         LAMBDA w2 : [w |-> w2, ppn |-> pte_ppn(ReadPte(w2.mem, ppn, idx))])

\* find_pte_create: the leaf entry is (node, idx)
find_pte_create(w, vpn) ==
    With(walk_create(w, w.root_ppn, indexes(vpn)[1]), LAMBDA s0 :
        IF s0.w.panic # "none"
        THEN [w |-> s0.w, node |-> NONE, idx |-> 0]
        ELSE With(walk_create(s0.w, s0.ppn, indexes(vpn)[2]), LAMBDA s1 :
            IF s1.w.panic # "none"
            THEN [w |-> s1.w, node |-> NONE, idx |-> 0]
            ELSE [w |-> s1.w, node |-> s1.ppn, idx |-> indexes(vpn)[3]]))

\* find_pte that follows every entry without looking at its Valid bit
find_pte_unchecked(m, root, vpn) ==
    [some |-> TRUE,
     node |-> pte_ppn(ReadPte(m, pte_ppn(ReadPte(m, root, indexes(vpn)[1])),
                              indexes(vpn)[2])),
     idx  |-> indexes(vpn)[3]]

\* find_pte: read-only walk from root; None at an invalid level-0/1 entry
find_pte(m, root, vpn) ==
    With(ReadPte(m, root, indexes(vpn)[1]), LAMBDA p0 :
        IF ~is_valid(p0)
        THEN [some |-> FALSE, node |-> NONE, idx |-> 0]
        ELSE With(ReadPte(m, pte_ppn(p0), indexes(vpn)[2]), LAMBDA p1 :
            IF ~is_valid(p1)
            THEN [some |-> FALSE, node |-> NONE, idx |-> 0]
            ELSE [some |-> TRUE, node |-> pte_ppn(p1), idx |-> indexes(vpn)[3]]))

\* map without the assertion: a valid entry is overwritten
map_overwrites(w, vpn, ppn, flags) ==
    With(find_pte_create(w, vpn), LAMBDA f :
        IF f.w.panic # "none" THEN f.w
        ELSE [f.w EXCEPT !.mem = WritePte(f.w.mem, f.node, f.idx,
                                          PageTableEntry_new(ppn, BitOr(flags, PTE_V)))])

\* PageTable::map
map(w, vpn, ppn, flags) ==
    With(find_pte_create(w, vpn), LAMBDA f :
        IF f.w.panic # "none" THEN f.w
        ELSE IF is_valid(ReadPte(f.w.mem, f.node, f.idx))
        THEN Panic(f.w, "map_assert")
        ELSE [f.w EXCEPT !.mem = WritePte(f.w.mem, f.node, f.idx,
                                          PageTableEntry_new(ppn, BitOr(flags, PTE_V)))])

\* unmap that leaves the entry as it is
unmap_keeps_entry(w, vpn) ==
    With(find_pte_create(w, vpn), LAMBDA f :
        IF f.w.panic # "none" THEN f.w
        ELSE IF ~is_valid(ReadPte(f.w.mem, f.node, f.idx))
        THEN Panic(f.w, "unmap_assert")
        ELSE f.w)

\* unmap without the assertion: an entry that is not valid is cleared too
unmap_no_assert(w, vpn) ==
    With(find_pte_create(w, vpn), LAMBDA f :
        IF f.w.panic # "none" THEN f.w
        ELSE [f.w EXCEPT !.mem = WritePte(f.w.mem, f.node, f.idx, PageTableEntry_empty)])

\* PageTable::unmap
unmap(w, vpn) ==
    With(find_pte_create(w, vpn), LAMBDA f :
        IF f.w.panic # "none" THEN f.w
        ELSE IF ~is_valid(ReadPte(f.w.mem, f.node, f.idx))
        THEN Panic(f.w, "unmap_assert")
        ELSE [f.w EXCEPT !.mem = WritePte(f.w.mem, f.node, f.idx, PageTableEntry_empty)])

\* PageTable::translate: a copy of the leaf entry, or None
translate(m, root, vpn) ==
    With(find_pte(m, root, vpn), LAMBDA f :
        IF f.some THEN [some |-> TRUE, bits |-> ReadPte(m, f.node, f.idx)]
        ELSE [some |-> FALSE, bits |-> 0])

\* find_pte that walks as find_pte_create does, creating the missing nodes
PageTable_find_pte_creating(w, vpn) ==
    With(find_pte_create(w, vpn), LAMBDA f :
        [w   |-> f.w,
         pte |-> [some |-> f.w.panic = "none", node |-> f.node, idx |-> f.idx]])

\* PageTable::find_pte as a call on the table (&self): the world after the
\* walk, which writes nothing and allocates nothing, and the entry found
PageTable_find_pte(w, vpn) ==
    [w |-> w, pte |-> find_pte(w.mem, w.root_ppn, vpn)]

\* PageTable::translate as a call on the table: find_pte(vpn).copied()
PageTable_translate(w, vpn) ==
    With(PageTable_find_pte(w, vpn), LAMBDA f :
        [w   |-> f.w,
         pte |-> IF f.pte.some
                 THEN [some |-> TRUE, bits |-> ReadPte(f.w.mem, f.pte.node, f.pte.idx)]
                 ELSE [some |-> FALSE, bits |-> 0]])

\* `8usize << 60`: the mode selector in the top four bits of a usize
SATP_MODE == 8 * Pow2(USIZE_BITS - 4)

\* token with the selector shifted into the bits of the page number
token_low_mode(root_ppn) == BitOr(8 * Pow2(PPN_BITS - 4), root_ppn)

\* PageTable::token: `8usize << 60 | self.root_ppn.0`
token(root_ppn) == BitOr(SATP_MODE, root_ppn)

\* PageTable::from_token: the root page number is `satp & ((1 << 44) - 1)`
from_token(satp) == satp % PPN_MOD

\* VirtAddr::page_offset
page_offset(va) == va % PAGE_SIZE

\* translated_byte_buffer with the slice of every page ended at
\* end_va.page_offset(), whether or not that offset is 0
RECURSIVE translated_byte_buffer_no_branch(_, _, _, _)
translated_byte_buffer_no_branch(m, satp, start, end_) ==
    IF ~(start < end_) THEN [v |-> <<>>, panic |-> "none"]
    ELSE With(translate(m, from_token(satp), VirtAddr_floor(start)), LAMBDA t :
        IF ~t.some THEN [v |-> <<>>, panic |-> "unwrap_none"]
        ELSE With(IF (VirtAddr_floor(start) + 1) * PAGE_SIZE < end_
                  THEN (VirtAddr_floor(start) + 1) * PAGE_SIZE ELSE end_,
                  LAMBDA end_va :
            With(translated_byte_buffer_no_branch(m, satp, end_va, end_), LAMBDA rest :
                IF page_offset(start) > page_offset(end_va)
                THEN [v |-> <<>>, panic |-> "slice_index"]
                ELSE [v |-> << [ppn |-> pte_ppn(t.bits),
                                from |-> page_offset(start),
                                to |-> page_offset(end_va)] >> \o rest.v,
                      panic |-> rest.panic])))

\* translated_byte_buffer(token, ptr, len), entered with start = ptr and
\* end = ptr + len: one slice [from, to) of the 4096-byte array of a physical
\* page per turn of the loop; the unwrap of a None translation is fatal
RECURSIVE translated_byte_buffer(_, _, _, _)
translated_byte_buffer(m, satp, start, end_) ==
    IF ~(start < end_) THEN [v |-> <<>>, panic |-> "none"]
    ELSE With(translate(m, from_token(satp), VirtAddr_floor(start)), LAMBDA t :
        IF ~t.some THEN [v |-> <<>>, panic |-> "unwrap_none"]
        ELSE With(IF (VirtAddr_floor(start) + 1) * PAGE_SIZE < end_
                  THEN (VirtAddr_floor(start) + 1) * PAGE_SIZE ELSE end_,
                  LAMBDA end_va :
            With(translated_byte_buffer(m, satp, end_va, end_), LAMBDA rest :
                [v |-> << [ppn |-> pte_ppn(t.bits),
                           from |-> page_offset(start),
                           to |-> IF page_offset(end_va) = 0 THEN PAGE_SIZE
                                  ELSE page_offset(end_va)] >> \o rest.v,
                 panic |-> rest.panic])))

\* the drop of a Vec<FrameTracker>: every tracker is dropped, first to last
RECURSIVE drop_frames(_, _)
drop_frames(w, fs) ==
    IF fs = <<>> \/ w.panic # "none"
    THEN w
    ELSE drop_frames(frame_dealloc(w, Head(fs)), Tail(fs))

\* a drop of a PageTable that also frees the frame the leaf entry of page 0
\* points to
PageTable_drop_leaf(w) ==
    With(translate(w.mem, w.root_ppn, 0), LAMBDA t :
        [(IF t.some /\ is_valid(t.bits)
          THEN frame_dealloc(drop_frames(w, w.frames), pte_ppn(t.bits))
          ELSE drop_frames(w, w.frames)) EXCEPT !.frames = <<>>])

\* the drop of a PageTable: its field frames is dropped
PageTable_drop(w) == [drop_frames(w, w.frames) EXCEPT !.frames = <<>>]

\* from_token that makes the view own the root frame
PageTable_from_token_owning(satp) ==
    [root_ppn |-> from_token(satp), frames |-> <<from_token(satp)>>]

\* PageTable::from_token: a PageTable value with the root of the token and
\* `frames: Vec::new()`
PageTable_from_token(satp) == [root_ppn |-> from_token(satp), frames |-> <<>>]

\* translated_byte_buffer as a call: the view is made from the token, the
\* loop runs on it, and the view is dropped when the function returns
translated_byte_buffer_call(w, satp, ptr, len) ==
    With(PageTable_from_token(satp), LAMBDA view :
        With(translated_byte_buffer(w.mem, satp, ptr, ptr + len), LAMBDA b :
            [w |-> IF b.panic # "none" THEN Panic(w, b.panic)
                   ELSE drop_frames(w, view.frames),
             v |-> b.v]))

\* PhysAddr::from(ppn): the page number shifted left by PAGE_SIZE_BITS
PhysAddr_from_ppn(ppn) == (ppn * PAGE_SIZE) % USIZE_MOD

\* translate_from_virtual_address(vir_addr) under the token satp of the
\* current task: find_pte on a view of the table, unwrap (fatal on None),
\* the entry's page number as an address plus the page offset; the view is
\* dropped on return
translate_from_virtual_address(w, satp, vir_addr) ==
    With(PageTable_from_token(satp), LAMBDA view :
        With(find_pte(w.mem, view.root_ppn, VirtAddr_floor(vir_addr)), LAMBDA f :
            IF ~f.some
            THEN [w |-> Panic(w, "unwrap_none"), ret |-> 0]
            ELSE [w   |-> drop_frames(w, view.frames),
                  ret |-> PhysAddr_from_ppn(pte_ppn(ReadPte(w.mem, f.node, f.idx)))
                          + page_offset(vir_addr)]))

----------------------------------------------------------------------------
\* memory_set.rs: MapArea
\* A MapArea is [l, r, data_frames, map_type, map_permission]: vpn_range is
\* [l, r), data_frames maps a virtual page number to the page number of the
\* FrameTracker it owns.

MapPermission_R == 2
MapPermission_W == 4
MapPermission_X == 8
MapPermission_U == 16

\* SimpleRange::new asserts start <= end
VPNRange_new_panics(l, r) == l > r

\* MapArea::new: start floored, end ceiled; a panic is reported in .panic
MapArea_new(start_va, end_va, map_type, map_permission) ==
    [panic |-> IF ceil_panics(end_va) THEN "overflow"
               ELSE IF VPNRange_new_panics(VirtAddr_floor(start_va), VirtAddr_ceil(end_va))
               THEN "range_assert"
               ELSE "none",
     area  |-> [l |-> VirtAddr_floor(start_va), r |-> VirtAddr_ceil(end_va),
                data_frames |-> EmptyPage,
                map_type |-> map_type, map_permission |-> map_permission]]

\* BTreeMap::insert and BTreeMap::remove on data_frames
data_frames_insert(df, vpn, ppn) ==
    [v \in (DOMAIN df) \cup {vpn} |-> IF v = vpn THEN ppn ELSE df[v]]

data_frames_remove(df, vpn) == [v \in (DOMAIN df) \ {vpn} |-> df[v]]

\* MapArea::map_one; gives the world and the area after the call
map_one(w, area, vpn) ==
    IF area.map_type = "Identical"
    THEN [w |-> map(w, vpn, vpn, area.map_permission), area |-> area]
    ELSE With(frame_alloc(w), LAMBDA fa :
        IF fa.ppn = NONE
        THEN [w |-> Panic(w, "oom"), area |-> area]
        ELSE [w    |-> map(fa.w, vpn, fa.ppn, area.map_permission),
              area |-> [area EXCEPT !.data_frames = data_frames_insert(@, vpn, fa.ppn)]])

\* MapArea::unmap_one: the frame of a Framed page is dropped, then the entry
\* is cleared
unmap_one(w, area, vpn) ==
    With(IF area.map_type = "Framed" /\ vpn \in DOMAIN area.data_frames
         THEN frame_dealloc(w, area.data_frames[vpn])
         ELSE w,
         LAMBDA w1 :
            [w    |-> IF w1.panic # "none" THEN w1 ELSE unmap(w1, vpn),
             area |-> IF area.map_type = "Framed"
                      THEN [area EXCEPT !.data_frames = data_frames_remove(@, vpn)]
                      ELSE area])

\* MapArea::map: map_one for every page of vpn_range, from vpn on
RECURSIVE MapArea_map(_, _, _)
MapArea_map(w, area, vpn) ==
    IF vpn = area.r \/ w.panic # "none"
    THEN [w |-> w, area |-> area]
    ELSE With(map_one(w, area, vpn), LAMBDA s : MapArea_map(s.w, s.area, vpn + 1))

\* MapArea::unmap that stops before the last page of the range
RECURSIVE MapArea_unmap_short(_, _, _)
MapArea_unmap_short(w, area, vpn) ==
    IF vpn >= area.r - 1 \/ w.panic # "none"
    THEN [w |-> w, area |-> area]
    ELSE With(unmap_one(w, area, vpn), LAMBDA s : MapArea_unmap_short(s.w, s.area, vpn + 1))

\* MapArea::unmap: unmap_one for every page of vpn_range, from vpn on
RECURSIVE MapArea_unmap(_, _, _)
MapArea_unmap(w, area, vpn) ==
    IF vpn = area.r \/ w.panic # "none"
    THEN [w |-> w, area |-> area]
    ELSE With(unmap_one(w, area, vpn), LAMBDA s : MapArea_unmap(s.w, s.area, vpn + 1))

----------------------------------------------------------------------------
\* memory_set.rs: MemorySet

\* MemorySet::new_bare
new_bare(w) == [PageTable_new(w) EXCEPT !.areas = <<>>]

\* MemorySet::push with data = None
push(w, map_area) ==
    With(MapArea_map(w, map_area, map_area.l), LAMBDA s :
        IF s.w.panic # "none" THEN s.w
        ELSE [s.w EXCEPT !.areas = Append(s.w.areas, s.area)])

\* MemorySet::insert_framed_area
insert_framed_area(w, start_va, end_va, permission) ==
    With(MapArea_new(start_va, end_va, "Framed", permission), LAMBDA n :
        IF n.panic # "none" THEN Panic(w, n.panic) ELSE push(w, n.area))

\* the leaf entry of vpn is found and is valid
ValidAt(m, root, vpn) ==
    With(find_pte(m, root, vpn), LAMBDA f : f.some /\ is_valid(ReadPte(m, f.node, f.idx)))

\* some page of [l, r) has a valid leaf entry
AnyValid(m, root, l, r) == \E vpn \in l..(r - 1) : ValidAt(m, root, vpn)

\* some page of [l, r) has no entry or an entry that is not valid
AnyInvalid(m, root, l, r) == \E vpn \in l..(r - 1) : ~ValidAt(m, root, vpn)

\* port_permission with the tests of bit 0 and bit 1 exchanged
port_permission_swapped(port) ==
    MapPermission_U
    + (IF port % 2 # 0 THEN MapPermission_W ELSE 0)
    + (IF (port \div 2) % 2 # 0 THEN MapPermission_R ELSE 0)
    + (IF (port \div 4) % 2 # 0 THEN MapPermission_X ELSE 0)

\* the permission mmap derives from port
port_permission(port) ==
    MapPermission_U
    + (IF port % 2 # 0 THEN MapPermission_R ELSE 0)
    + (IF (port \div 2) % 2 # 0 THEN MapPermission_W ELSE 0)
    + (IF (port \div 4) % 2 # 0 THEN MapPermission_X ELSE 0)

\* mmap without the scan for pages that are already mapped
mmap_no_check(w, start, len, port) ==
    [w |-> insert_framed_area(w, start, start + len, port_permission(port)), ret |-> 0]

\* MemorySet::mmap; gives the world after the call and the return value
mmap(w, start, len, port) ==
    IF ceil_panics(start + len)
    THEN [w |-> Panic(w, "overflow"), ret |-> 0]
    ELSE IF VPNRange_new_panics(VirtAddr_floor(start), VirtAddr_ceil(start + len))
    THEN [w |-> Panic(w, "range_assert"), ret |-> 0]
    ELSE IF AnyValid(w.mem, w.root_ppn, VirtAddr_floor(start), VirtAddr_ceil(start + len))
    THEN [w |-> w, ret |-> -1]
    ELSE [w   |-> insert_framed_area(w, start, start + len, port_permission(port)),
          ret |-> 0]

\* the body of the inner loop of munmap for the i-th area
munmap_area(w, vpn, i) ==
    IF vpn < w.areas[i].r /\ vpn >= w.areas[i].l
    THEN With(unmap_one(w, w.areas[i], vpn), LAMBDA s : [s.w EXCEPT !.areas[i] = s.area])
    ELSE w

\* the inner loop of munmap: page vpn against every area from the i-th on
RECURSIVE munmap_areas(_, _, _)
munmap_areas(w, vpn, i) ==
    IF i > Len(w.areas) \/ w.panic # "none"
    THEN w
    ELSE munmap_areas(munmap_area(w, vpn, i), vpn, i + 1)

\* the outer loop of munmap over the pages vpn .. r - 1
RECURSIVE munmap_pages(_, _, _)
munmap_pages(w, vpn, r) ==
    IF vpn = r \/ w.panic # "none"
    THEN w
    ELSE munmap_pages(munmap_areas(w, vpn, 1), vpn + 1, r)

\* munmap that checks each page only when it comes to unmap it
munmap_no_precheck(w, start, len) ==
    With({v \in VirtAddr_floor(start)..(VirtAddr_ceil(start + len) - 1) :
             ~ValidAt(w.mem, w.root_ppn, v)},
         LAMBDA bad :
            IF bad = {}
            THEN [w   |-> munmap_pages(w, VirtAddr_floor(start), VirtAddr_ceil(start + len)),
                  ret |-> 0]
            ELSE [w   |-> munmap_pages(w, VirtAddr_floor(start),
                                       CHOOSE v \in bad : \A u \in bad : v <= u),
                  ret |-> -1])

\* munmap whose second loop goes one page past the end of the range
munmap_one_more(w, start, len) ==
    IF ceil_panics(start + len)
    THEN [w |-> Panic(w, "overflow"), ret |-> 0]
    ELSE IF VPNRange_new_panics(VirtAddr_floor(start), VirtAddr_ceil(start + len))
    THEN [w |-> Panic(w, "range_assert"), ret |-> 0]
    ELSE IF AnyInvalid(w.mem, w.root_ppn, VirtAddr_floor(start), VirtAddr_ceil(start + len))
    THEN [w |-> w, ret |-> -1]
    ELSE [w   |-> munmap_pages(w, VirtAddr_floor(start), VirtAddr_ceil(start + len) + 1),
          ret |-> 0]

\* MemorySet::munmap; gives the world after the call and the return value
munmap(w, start, len) ==
    IF ceil_panics(start + len)
    THEN [w |-> Panic(w, "overflow"), ret |-> 0]
    ELSE IF VPNRange_new_panics(VirtAddr_floor(start), VirtAddr_ceil(start + len))
    THEN [w |-> Panic(w, "range_assert"), ret |-> 0]
    ELSE IF AnyInvalid(w.mem, w.root_ppn, VirtAddr_floor(start), VirtAddr_ceil(start + len))
    THEN [w |-> w, ret |-> -1]
    ELSE [w   |-> munmap_pages(w, VirtAddr_floor(start), VirtAddr_ceil(start + len)),
          ret |-> 0]

\* the FrameTrackers a BTreeMap<VirtPageNum, FrameTracker> holds, in the
\* order of their keys (the order in which its drop visits them)
RECURSIVE BTreeMap_values(_)
BTreeMap_values(df) ==
    IF DOMAIN df = {}
    THEN <<>>
    ELSE With(CHOOSE v \in DOMAIN df : \A u \in DOMAIN df : v <= u, LAMBDA v :
            <<df[v]>> \o BTreeMap_values(data_frames_remove(df, v)))

\* the drop of a Vec<MapArea> from its i-th element on: the data_frames of
\* every area are dropped, which drops every FrameTracker they hold
RECURSIVE drop_areas(_, _)
drop_areas(w, i) ==
    IF i > Len(w.areas) \/ w.panic # "none"
    THEN w
    ELSE drop_areas(drop_frames(w, BTreeMap_values(w.areas[i].data_frames)), i + 1)

\* a drop of a MemorySet that forgets the areas without dropping their frames
MemorySet_drop_page_table_only(w) == [PageTable_drop(w) EXCEPT !.areas = <<>>]

\* the drop of a MemorySet: its fields are dropped in the order of their
\* declaration, page_table first, areas second
MemorySet_drop(w) ==
    With(drop_areas(PageTable_drop(w), 1), LAMBDA w1 :
        IF w1.panic # "none" THEN w1 ELSE [w1 EXCEPT !.areas = <<>>])

----------------------------------------------------------------------------
\* memory_set.rs: the trampoline and from_elf

\* the configured layout of the top of every address space: the trampoline
\* is the highest page of the address range (usize::MAX - PAGE_SIZE + 1),
\* the trap context the page below it; the user stack takes USER_STACK_SIZE
\* bytes
TRAMPOLINE == USIZE_MOD - PAGE_SIZE
TRAP_CONTEXT == TRAMPOLINE - PAGE_SIZE
TRAMPOLINE_VPN == VirtAddr_floor(TRAMPOLINE)
TRAP_CONTEXT_VPN == VirtAddr_floor(TRAP_CONTEXT)
USER_STACK_SIZE == 2 * PAGE_SIZE

\* the linker symbol strampoline: the physical address of the trampoline code
strampoline == PAGE_SIZE

\* the rest of a function body, skipped once the kernel has panicked
Then(w, F(_)) == IF w.panic # "none" THEN w ELSE F(w)

\* map_trampoline with the flags R | W
map_trampoline_rw(w) ==
    map(w, TRAMPOLINE_VPN, strampoline \div PAGE_SIZE, PTE_R + PTE_W)

\* MemorySet::map_trampoline
map_trampoline(w) ==
    map(w, TRAMPOLINE_VPN, strampoline \div PAGE_SIZE, PTE_R + PTE_X)

\* the permission from_elf derives from the flags of a program header
ph_permission(ph) ==
    MapPermission_U
    + (IF ph.r THEN MapPermission_R ELSE 0)
    + (IF ph.w THEN MapPermission_W ELSE 0)
    + (IF ph.x THEN MapPermission_X ELSE 0)

\* the loop of from_elf over the program headers phs; gives the world and
\* max_end_vpn after it. The bytes copy_data writes into the data frames are
\* not part of the state.
RECURSIVE from_elf_headers(_, _, _)
from_elf_headers(w, phs, max_end_vpn) ==
    IF phs = <<>> \/ w.panic # "none"
    THEN [w |-> w, max_end_vpn |-> max_end_vpn]
    ELSE IF ~Head(phs).load
    THEN from_elf_headers(w, Tail(phs), max_end_vpn)
    ELSE With(MapArea_new(Head(phs).va, Head(phs).va + Head(phs).mem_size,
                          "Framed", ph_permission(Head(phs))),
              LAMBDA n :
                IF n.panic # "none"
                THEN [w |-> Panic(w, n.panic), max_end_vpn |-> max_end_vpn]
                ELSE from_elf_headers(push(w, n.area), Tail(phs), n.area.r))

\* the user stack and the trap context of from_elf, after the headers
from_elf_stack(w, user_stack_bottom) ==
    Then(insert_framed_area(w, user_stack_bottom, user_stack_bottom + USER_STACK_SIZE,
                            MapPermission_R + MapPermission_W + MapPermission_U),
         LAMBDA w1 :
            With(MapArea_new(TRAP_CONTEXT, TRAMPOLINE, "Framed",
                             MapPermission_R + MapPermission_W),
                 LAMBDA n : IF n.panic # "none" THEN Panic(w1, n.panic)
                            ELSE push(w1, n.area)))

\* MemorySet::from_elf of an image [magic, phs]; gives the world and user_sp
from_elf(w, elf) ==
    IF ~elf.magic
    THEN [w |-> Then(Then(new_bare(w), LAMBDA w0 : map_trampoline(w0)),
                     LAMBDA w1 : Panic(w1, "invalid_elf")),
          ret |-> 0]
    ELSE With(from_elf_headers(Then(new_bare(w), LAMBDA w0 : map_trampoline(w0)),
                               elf.phs, 0),
              LAMBDA h :
                [w   |-> Then(h.w, LAMBDA w1 :
                             from_elf_stack(w1, h.max_end_vpn * PAGE_SIZE + PAGE_SIZE)),
                 ret |-> h.max_end_vpn * PAGE_SIZE + PAGE_SIZE + USER_STACK_SIZE])

----------------------------------------------------------------------------
\* memory_set.rs: new_kernel and remap_test
\* A kernel layout k gives the linker's symbols stext, etext, srodata, erodata,
\* sdata, edata, sbss_with_stack, ebss and ekernel as addresses.

\* the end of physical memory, scaled to the pages the model keeps
MEMORY_END == MaxPpn * PAGE_SIZE

\* memory_set.push(MapArea::new(start, end, map_type, permission), None)
push_new(w, start_va, end_va, map_type, permission) ==
    With(MapArea_new(start_va, end_va, map_type, permission), LAMBDA n :
        IF n.panic # "none" THEN Panic(w, n.panic) ELSE push(w, n.area))

\* new_kernel with .rodata pushed with R | W
new_kernel_rodata_w(w, k) ==
    Then(Then(Then(Then(Then(Then(new_bare(w),
        LAMBDA w0 : map_trampoline(w0)),
        LAMBDA w1 : push_new(w1, k.stext, k.etext, "Identical",
                             MapPermission_R + MapPermission_X)),
        LAMBDA w2 : push_new(w2, k.srodata, k.erodata, "Identical",
                             MapPermission_R + MapPermission_W)),
        LAMBDA w3 : push_new(w3, k.sdata, k.edata, "Identical",
                             MapPermission_R + MapPermission_W)),
        LAMBDA w4 : push_new(w4, k.sbss_with_stack, k.ebss, "Identical",
                             MapPermission_R + MapPermission_W)),
        LAMBDA w5 : push_new(w5, k.ekernel, MEMORY_END, "Identical",
                             MapPermission_R + MapPermission_W))

\* MemorySet::new_kernel: the trampoline, then .text, .rodata, .data, .bss
\* and the memory from ekernel to MEMORY_END, each pushed as an Identical area
new_kernel(w, k) ==
    Then(Then(Then(Then(Then(Then(new_bare(w),
        LAMBDA w0 : map_trampoline(w0)),
        LAMBDA w1 : push_new(w1, k.stext, k.etext, "Identical",
                             MapPermission_R + MapPermission_X)),
        LAMBDA w2 : push_new(w2, k.srodata, k.erodata, "Identical",
                             MapPermission_R)),
        LAMBDA w3 : push_new(w3, k.sdata, k.edata, "Identical",
                             MapPermission_R + MapPermission_W)),
        LAMBDA w4 : push_new(w4, k.sbss_with_stack, k.ebss, "Identical",
                             MapPermission_R + MapPermission_W)),
        LAMBDA w5 : push_new(w5, k.ekernel, MEMORY_END, "Identical",
                             MapPermission_R + MapPermission_W))

\* PageTableEntry::writable and PageTableEntry::executable
writable(bits) == (pte_flags(bits) \div PTE_W) % 2 # 0

executable(bits) == (pte_flags(bits) \div PTE_X) % 2 # 0

\* one `assert!(!translate(mid.floor()).unwrap().<flag>())` of remap_test
remap_assert(w, mid, flag) ==
    With(translate(w.mem, w.root_ppn, VirtAddr_floor(mid)), LAMBDA t :
        IF ~t.some THEN Panic(w, "unwrap_none")
        ELSE IF (flag = "w" /\ writable(t.bits)) \/ (flag = "x" /\ executable(t.bits))
        THEN Panic(w, "remap_assert")
        ELSE w)

\* remap_test: the middle of .text and of .rodata is not writable, the middle
\* of .data is not executable
remap_test(w, k) ==
    Then(Then(remap_assert(w, (k.stext + k.etext) \div 2, "w"),
        LAMBDA w1 : remap_assert(w1, (k.srodata + k.erodata) \div 2, "w")),
        LAMBDA w2 : remap_assert(w2, (k.sdata + k.edata) \div 2, "x"))

----------------------------------------------------------------------------
\* The cells of the two singletons. A cells value records which cell has a
\* live guard and the cell the control flow is spinning on ("none" if none).

\* UPSafeCell::exclusive_access on FRAME_ALLOCATOR: the borrow of a cell that
\* is already borrowed panics
exclusive_access(c) ==
    IF c.FRAME_ALLOCATOR
    THEN [cells |-> c, panic |-> "already_borrowed"]
    ELSE [cells |-> [c EXCEPT !.FRAME_ALLOCATOR = TRUE], panic |-> "none"]

\* spin::Mutex::lock on KERNEL_SPACE: the lock is taken when it is free; when
\* it is held the caller stays in the loop that retries
lock(c) ==
    IF c.KERNEL_SPACE
    THEN [c EXCEPT !.spinning = "KERNEL_SPACE"]
    ELSE [c EXCEPT !.KERNEL_SPACE = TRUE]

----------------------------------------------------------------------------
\* task: mmap / munmap of the current task forward to its MemorySet

task_mmap(w, start, len, port) == mmap(w, start, len, port)

task_munmap(w, start, len) == munmap(w, start, len)

----------------------------------------------------------------------------
\* syscall/process.rs

\* sys_mmap that leaves the port unchecked
sys_mmap_no_port_check(w, start, len, port) ==
    IF start % PAGE_SIZE # 0
    THEN [w |-> w, ret |-> -1]
    ELSE task_mmap(w, start, len, port)

\* sys_mmap: `_start & (PAGE_SIZE - 1)`, `_port & 0x7`, `_port & !0x7`
sys_mmap(w, start, len, port) ==
    IF start % PAGE_SIZE # 0
    THEN [w |-> w, ret |-> -1]
    ELSE IF port % 8 = 0 \/ port - (port % 8) # 0
    THEN [w |-> w, ret |-> -1]
    ELSE task_mmap(w, start, len, port)

\* sys_munmap
sys_munmap(w, start, len) ==
    IF start % PAGE_SIZE # 0
    THEN [w |-> w, ret |-> -1]
    ELSE task_munmap(w, start, len)

----------------------------------------------------------------------------
\* State machine

Call(name, a, b, c) == [name |-> name, a |-> a, b |-> b, c |-> c]

SetWorld(w) ==
    /\ current' = w.current
    /\ end' = w.end
    /\ recycled' = w.recycled
    /\ mem' = w.mem
    /\ page_table' = [root_ppn |-> w.root_ppn, frames |-> w.frames]
    /\ areas' = w.areas
    /\ panic' = w.panic

SetWorldRet(s) == SetWorld(s.w) /\ ret' = s.ret

\* the inputs of mmap and munmap
Starts == {0, 1, PAGE_SIZE}
Lens == {0, PAGE_SIZE, PAGE_SIZE + 1}
Ports == {0, 3, 9}

\* the arguments of the system calls a task makes: one page, two pages, an
\* empty range, an unaligned start, no permission bit, a bit outside the low 3
SysMmapArgs ==
    {<<0, PAGE_SIZE, 3>>, <<PAGE_SIZE, PAGE_SIZE + 1, 3>>, <<0, 0, 3>>,
     <<1, PAGE_SIZE, 3>>, <<0, PAGE_SIZE, 0>>, <<PAGE_SIZE, PAGE_SIZE, 9>>}
SysMunmapArgs ==
    {<<0, PAGE_SIZE>>, <<PAGE_SIZE, PAGE_SIZE + 1>>, <<0, 0>>, <<1, PAGE_SIZE>>}

\* the inputs of the page-table operations
Vpns == {0, 1, 512 * 512}
Ppns == {0, 5}
Flags == {PTE_R + PTE_W + PTE_U, PTE_V + PTE_X}

\* the regions [l, r) the allocator is initialised over
Regions == {<<l, r>> \in (0..2) \X (0..MaxPpn) : l <= r /\ r - l <= MaxFrames}
KernelRegions == {<<2, 5>>, <<2, 2 + MaxFrames>>}

\* the state after StackFrameAllocator::new(), before any MemorySet exists
Init ==
    /\ current = StackFrameAllocator_new.current
    /\ end = StackFrameAllocator_new.end
    /\ recycled = StackFrameAllocator_new.recycled
    /\ region = <<>>
    /\ mem = [p \in 0..(MaxPpn - 1) |-> EmptyPage]
    /\ page_table = [root_ppn |-> 0, frames |-> <<>>]
    /\ pt_alive = FALSE
    /\ areas = <<>>
    /\ held = <<>>
    /\ mapped = {}
    /\ overflow_checks \in BOOLEAN
    /\ cells = [FRAME_ALLOCATOR |-> FALSE, KERNEL_SPACE |-> FALSE, spinning |-> "none"]
    /\ panic = "none"
    /\ op = Call("new", 0, 0, 0)
    /\ ret = 0

\* StackFrameAllocator::init(l, r), called once (init_frame_allocator)
InitAllocator(l, r) ==
    /\ panic = "none" /\ region = <<>>
    /\ SetWorld(WithAlloc(World, StackFrameAllocator_init(AllocOf(World), l, r)))
    /\ region' = <<l, r>>
    /\ op' = Call("init", l, r, 0)
    /\ ret' = 0
    /\ UNCHANGED <<pt_alive, held, overflow_checks, cells, mapped>>

\* StackFrameAllocator::alloc called on the allocator itself
Alloc ==
    /\ panic = "none" /\ region # <<>>
    /\ With(alloc(AllocOf(World)), LAMBDA r :
            SetWorld(WithAlloc(World, r.a)) /\ ret' = r.ppn)
    /\ op' = Call("alloc", 0, 0, 0)
    /\ UNCHANGED <<region, pt_alive, held, overflow_checks, cells, mapped>>

\* StackFrameAllocator::dealloc called on the allocator itself
Dealloc(ppn) ==
    /\ panic = "none" /\ region # <<>>
    /\ Len(recycled) < MaxRecycled
    /\ SetWorld(frame_dealloc(World, ppn))
    /\ op' = Call("dealloc", ppn, 0, 0)
    /\ ret' = 0
    /\ UNCHANGED <<region, pt_alive, held, overflow_checks, cells, mapped>>

\* frame_alloc(), the tracker kept by the caller
FrameAlloc ==
    /\ panic = "none" /\ region # <<>>
    /\ Len(held) < MaxHeld
    /\ With(frame_alloc(World), LAMBDA fa :
            /\ SetWorld(fa.w)
            /\ held' = (IF fa.ppn = NONE THEN held ELSE Append(held, fa.ppn))
            /\ ret' = fa.ppn)
    /\ op' = Call("frame_alloc", 0, 0, 0)
    /\ UNCHANGED <<region, pt_alive, overflow_checks, cells, mapped>>

\* Drop for FrameTracker of the i-th tracker the caller keeps
DropTracker(i) ==
    /\ panic = "none"
    /\ i \in 1..Len(held)
    /\ SetWorld(frame_dealloc(World, held[i]))
    /\ held' = SubSeq(held, 1, i - 1) \o SubSeq(held, i + 1, Len(held))
    /\ op' = Call("drop", held[i], 0, 0)
    /\ ret' = 0
    /\ UNCHANGED <<region, pt_alive, overflow_checks, cells, mapped>>

\* MemorySet::new_bare()
NewBare ==
    /\ panic = "none" /\ region # <<>> /\ ~pt_alive /\ areas = <<>>
    /\ SetWorld(new_bare(World))
    /\ pt_alive' = TRUE
    /\ op' = Call("new_bare", 0, 0, 0)
    /\ ret' = 0
    /\ UNCHANGED <<region, held, overflow_checks, cells, mapped>>

\* the system call mmap
SysMmap(start, len, port) ==
    /\ panic = "none" /\ pt_alive
    /\ Len(areas) < MaxAreas
    /\ SetWorldRet(sys_mmap(World, start, len, port))
    /\ op' = Call("sys_mmap", start, len, port)
    /\ UNCHANGED <<region, pt_alive, held, overflow_checks, cells, mapped>>

\* the system call munmap
SysMunmap(start, len) ==
    /\ panic = "none" /\ pt_alive
    /\ SetWorldRet(sys_munmap(World, start, len))
    /\ op' = Call("sys_munmap", start, len, 0)
    /\ UNCHANGED <<region, pt_alive, held, overflow_checks, cells, mapped>>

\* MemorySet::mmap called by the kernel itself
Mmap(start, len, port) ==
    /\ panic = "none" /\ pt_alive
    /\ Len(areas) < MaxAreas
    /\ SetWorldRet(mmap(World, start, len, port))
    /\ op' = Call("mmap", start, len, port)
    /\ UNCHANGED <<region, pt_alive, held, overflow_checks, cells, mapped>>

\* MemorySet::munmap called by the kernel itself
Munmap(start, len) ==
    /\ panic = "none" /\ pt_alive
    /\ SetWorldRet(munmap(World, start, len))
    /\ op' = Call("munmap", start, len, 0)
    /\ UNCHANGED <<region, pt_alive, held, overflow_checks, cells, mapped>>

\* PageTable::new()
NewPageTable ==
    /\ panic = "none" /\ region # <<>> /\ ~pt_alive
    /\ SetWorld(PageTable_new(World))
    /\ pt_alive' = TRUE
    /\ op' = Call("PageTable_new", 0, 0, 0)
    /\ ret' = 0
    /\ UNCHANGED <<region, held, overflow_checks, cells, mapped>>

\* PageTable::map(vpn, ppn, flags)
Map(vpn, ppn, flags) ==
    /\ panic = "none" /\ pt_alive
    /\ SetWorld(map(World, vpn, ppn, flags))
    /\ mapped' = (IF map(World, vpn, ppn, flags).panic = "none"
                  THEN mapped \cup {vpn} ELSE mapped)
    /\ op' = Call("map", vpn, ppn, flags)
    /\ ret' = 0
    /\ UNCHANGED <<region, pt_alive, held, overflow_checks, cells>>

\* PageTable::unmap(vpn)
Unmap(vpn) ==
    /\ panic = "none" /\ pt_alive
    /\ SetWorld(unmap(World, vpn))
    /\ op' = Call("unmap", vpn, 0, 0)
    /\ ret' = 0
    /\ UNCHANGED <<region, pt_alive, held, overflow_checks, cells, mapped>>

\* PageTable::translate(vpn): ret is the entry's bits, NONE for None
Translate(vpn) ==
    /\ panic = "none" /\ pt_alive
    /\ With(PageTable_translate(World, vpn), LAMBDA t :
            /\ SetWorld(t.w)
            /\ ret' = (IF t.pte.some THEN t.pte.bits ELSE NONE))
    /\ op' = Call("translate", vpn, 0, 0)
    /\ UNCHANGED <<region, pt_alive, held, overflow_checks, cells, mapped>>

\* PageTable::find_pte(vpn): ret is the place of the leaf entry (its node
\* and index), NONE for None
FindPte(vpn) ==
    /\ panic = "none" /\ pt_alive
    /\ With(PageTable_find_pte(World, vpn), LAMBDA f :
            /\ SetWorld(f.w)
            /\ ret' = (IF f.pte.some THEN f.pte.node * 512 + f.pte.idx ELSE NONE))
    /\ op' = Call("find_pte", vpn, 0, 0)
    /\ UNCHANGED <<region, pt_alive, held, overflow_checks, cells, mapped>>

\* sys_write's translated_byte_buffer(token, ptr, len) on the table's token:
\* ret is the list of slices
TranslatedByteBuffer(ptr, len) ==
    /\ panic = "none" /\ pt_alive
    /\ With(translated_byte_buffer_call(World, token(page_table.root_ppn), ptr, len),
            LAMBDA b : SetWorld(b.w) /\ ret' = b.v)
    /\ op' = Call("translated_byte_buffer", ptr, len, token(page_table.root_ppn))
    /\ UNCHANGED <<region, pt_alive, held, overflow_checks, cells, mapped>>

\* translate_from_virtual_address(vir_addr), the token that of the table
TranslateFromVirtualAddress(vir_addr) ==
    /\ panic = "none" /\ pt_alive
    /\ SetWorldRet(translate_from_virtual_address(World, token(page_table.root_ppn),
                                                  vir_addr))
    /\ op' = Call("translate_from_virtual_address", vir_addr, 0,
                  token(page_table.root_ppn))
    /\ UNCHANGED <<region, pt_alive, held, overflow_checks, cells, mapped>>

\* VirtAddr::floor and PhysAddr::floor of address x
Floor(kind, x) ==
    /\ panic = "none"
    /\ ret' = (IF kind = "virt" THEN VirtAddr_floor(x) ELSE PhysAddr_floor(x))
    /\ op' = Call("floor", x, kind, 0)
    /\ UNCHANGED <<current, end, recycled, region, mem, page_table, pt_alive,
                   areas, held, overflow_checks, cells, panic, mapped>>

\* VirtAddr::ceil and PhysAddr::ceil of address x
Ceil(kind, x) ==
    /\ panic = "none"
    /\ panic' = (IF ceil_panics(x) THEN "overflow" ELSE "none")
    /\ ret' = (IF ceil_panics(x) THEN 0
               ELSE IF kind = "virt" THEN VirtAddr_ceil(x) ELSE PhysAddr_ceil(x))
    /\ op' = Call("ceil", x, kind, 0)
    /\ UNCHANGED <<current, end, recycled, region, mem, page_table, pt_alive,
                   areas, held, overflow_checks, cells, mapped>>

\* KERNEL_SPACE: MemorySet::new_kernel() for the layout k, the allocator
\* initialised over [ekernel, MEMORY_END)
NewKernel(k) ==
    /\ panic = "none" /\ ~pt_alive /\ areas = <<>>
    /\ region = <<VirtAddr_ceil(k.ekernel), VirtAddr_floor(MEMORY_END)>>
    /\ SetWorld(new_kernel(World, k))
    /\ pt_alive' = TRUE
    /\ op' = Call("new_kernel", k, 0, 0)
    /\ ret' = 0
    /\ UNCHANGED <<region, held, overflow_checks, cells, mapped>>

\* remap_test() on the kernel space built for the layout k
RemapTest ==
    /\ panic = "none" /\ pt_alive
    /\ op.name = "new_kernel"
    /\ SetWorld(remap_test(World, op.a))
    /\ op' = Call("remap_test", op.a, 0, 0)
    /\ ret' = 0
    /\ UNCHANGED <<region, pt_alive, held, overflow_checks, cells, mapped>>

\* PageTable::token of a table whose root is root_ppn
Token(root_ppn) ==
    /\ panic = "none"
    /\ ret' = token(root_ppn)
    /\ op' = Call("token", root_ppn, 0, 0)
    /\ UNCHANGED <<current, end, recycled, region, mem, page_table, pt_alive,
                   areas, held, overflow_checks, cells, panic, mapped>>

\* PageTable::from_token of the token just returned: ret is the root of the
\* view, op.b the root of the table the token came from
FromToken ==
    /\ panic = "none"
    /\ op.name = "token"
    /\ ret' = from_token(ret)
    /\ op' = Call("from_token", ret, op.a, 0)
    /\ UNCHANGED <<current, end, recycled, region, mem, page_table, pt_alive,
                   areas, held, overflow_checks, cells, panic, mapped>>

\* memory_set.map_trampoline(), the statement that follows new_bare() in
\* new_kernel and in from_elf
MapTrampoline ==
    /\ panic = "none" /\ pt_alive
    /\ op.name = "new_bare"
    /\ SetWorld(map_trampoline(World))
    /\ mapped' = (IF map_trampoline(World).panic = "none"
                  THEN mapped \cup {TRAMPOLINE_VPN} ELSE mapped)
    /\ op' = Call("map_trampoline", 0, 0, 0)
    /\ ret' = 0
    /\ UNCHANGED <<region, pt_alive, held, overflow_checks, cells>>

\* `FRAME_ALLOCATOR.exclusive_access()`, the guard kept by the caller
ExclusiveAccess ==
    /\ panic = "none" /\ cells.spinning = "none"
    /\ cells' = exclusive_access(cells).cells
    /\ panic' = exclusive_access(cells).panic
    /\ op' = Call("exclusive_access", "FRAME_ALLOCATOR", 0, 0)
    /\ ret' = 0
    /\ UNCHANGED <<current, end, recycled, region, mem, page_table, pt_alive,
                   areas, held, overflow_checks, mapped>>

\* `KERNEL_SPACE.lock()`, the guard kept by the caller
Lock ==
    /\ panic = "none" /\ cells.spinning = "none"
    /\ cells' = lock(cells)
    /\ op' = Call("lock", "KERNEL_SPACE", 0, 0)
    /\ ret' = 0
    /\ UNCHANGED <<current, end, recycled, region, mem, page_table, pt_alive,
                   areas, held, overflow_checks, panic, mapped>>

\* the guard of cell c goes out of scope
DropGuard(c) ==
    /\ panic = "none" /\ cells.spinning = "none"
    /\ cells[c]
    /\ cells' = [cells EXCEPT ![c] = FALSE]
    /\ op' = Call("drop_guard", c, 0, 0)
    /\ ret' = 0
    /\ UNCHANGED <<current, end, recycled, region, mem, page_table, pt_alive,
                   areas, held, overflow_checks, panic, mapped>>

\* init_frame_allocator(): `FRAME_ALLOCATOR.exclusive_access().init(l, r)`
\* made while no guard of the cell is alive
InitFrameAllocator(l, r) ==
    /\ ~cells.FRAME_ALLOCATOR /\ cells.spinning = "none"
    /\ InitAllocator(l, r)

\* alloc() called through the guard the caller keeps
GuardAlloc ==
    /\ cells.FRAME_ALLOCATOR /\ cells.spinning = "none"
    /\ Alloc

\* dealloc(ppn) called through the guard the caller keeps
GuardDealloc(ppn) ==
    /\ cells.FRAME_ALLOCATOR /\ cells.spinning = "none"
    /\ Dealloc(ppn)

\* MemorySet::insert_framed_area(start_va, end_va, permission)
InsertFramedArea(start_va, end_va, permission) ==
    /\ panic = "none" /\ pt_alive
    /\ Len(areas) < MaxAreas
    /\ SetWorld(insert_framed_area(World, start_va, end_va, permission))
    /\ op' = Call("insert_framed_area", start_va, end_va, permission)
    /\ ret' = 0
    /\ UNCHANGED <<region, pt_alive, held, overflow_checks, cells, mapped>>

\* MapArea::unmap of the i-th area on the page table of its MemorySet
AreaUnmap(i) ==
    /\ panic = "none" /\ pt_alive
    /\ i \in 1..Len(areas)
    /\ With(MapArea_unmap(World, areas[i], areas[i].l), LAMBDA s :
            SetWorld([s.w EXCEPT !.areas[i] = s.area]))
    /\ op' = Call("area_unmap", i, 0, 0)
    /\ ret' = 0
    /\ UNCHANGED <<region, pt_alive, held, overflow_checks, cells, mapped>>

\* the PageTable goes out of scope
DropPageTable ==
    /\ panic = "none" /\ pt_alive
    /\ SetWorld(PageTable_drop(World))
    /\ pt_alive' = FALSE
    /\ op' = Call("drop_page_table", 0, 0, 0)
    /\ ret' = 0
    /\ UNCHANGED <<region, held, overflow_checks, cells, mapped>>

\* the MemorySet goes out of scope
DropMemorySet ==
    /\ panic = "none" /\ pt_alive
    /\ SetWorld(MemorySet_drop(World))
    /\ pt_alive' = FALSE
    /\ op' = Call("drop_memory_set", 0, 0, 0)
    /\ ret' = 0
    /\ UNCHANGED <<region, held, overflow_checks, cells, mapped>>

\* the address space of a task under the system calls
Next ==
    \/ \E reg \in KernelRegions : InitAllocator(reg[1], reg[2])
    \/ NewBare
    \/ FrameAlloc
    \/ \E i \in 1..MaxHeld : DropTracker(i)
    \/ \E args \in SysMmapArgs : SysMmap(args[1], args[2], args[3])
    \/ \E args \in SysMunmapArgs : SysMunmap(args[1], args[2])

Spec == Init /\ [][Next]_vars

\* one MemorySet under mmap and munmap calls made by the kernel itself
NextMS ==
    \/ \E reg \in KernelRegions : InitAllocator(reg[1], reg[2])
    \/ NewBare
    \/ \E start \in Starts, len \in Lens, port \in Ports : Mmap(start, len, port)
    \/ \E start \in Starts, len \in Lens : Munmap(start, len)

SpecMS == Init /\ [][NextMS]_vars

\* the areas insert_framed_area is called with: one page, two pages, a
\* page next to them
FramedAreas == {<<0, PAGE_SIZE>>, <<PAGE_SIZE, 3 * PAGE_SIZE>>, <<2 * PAGE_SIZE, 2 * PAGE_SIZE + 1>>}

\* MemorySet::new_bare() called for the first MemorySet made after
\* init_frame_allocator, while no frame has been recycled
NewBareFirst ==
    /\ recycled = <<>>
    /\ NewBare

\* the life of a MemorySet: built by new_bare, changed by insert_framed_area,
\* mmap and munmap, then destroyed
NextDrop ==
    \/ \E reg \in KernelRegions : InitAllocator(reg[1], reg[2])
    \/ NewBareFirst
    \/ \E a \in FramedAreas : InsertFramedArea(a[1], a[2], MapPermission_R + MapPermission_W)
    \/ \E start \in Starts, len \in Lens : Mmap(start, len, 3)
    \/ \E start \in Starts, len \in Lens : Munmap(start, len)
    \/ DropMemorySet

SpecDrop == Init /\ [][NextDrop]_vars

\* the allocator under direct alloc and dealloc calls
NextAlloc ==
    \/ \E reg \in Regions : InitAllocator(reg[1], reg[2])
    \/ Alloc
    \/ \E ppn \in 0..(MaxPpn - 1) : Dealloc(ppn)

SpecAlloc == Init /\ [][NextAlloc]_vars

\* the arguments of insert_framed_area: two pages, one page inside them, a
\* page above them given by unaligned addresses, an end below the start
AreaArgs ==
    {<<0, 2 * PAGE_SIZE>>, <<PAGE_SIZE, PAGE_SIZE + 1>>,
     <<2 * PAGE_SIZE + 1, 3 * PAGE_SIZE - 1>>, <<2 * PAGE_SIZE, PAGE_SIZE>>}

\* one MemorySet whose areas are mapped and unmapped as wholes, and its
\* PageTable dropped
NextArea ==
    \/ \E reg \in KernelRegions : InitAllocator(reg[1], reg[2])
    \/ NewBare
    \/ FrameAlloc
    \/ \E i \in 1..MaxHeld : DropTracker(i)
    \/ \E args \in AreaArgs :
          InsertFramedArea(args[1], args[2], MapPermission_R + MapPermission_W)
    \/ \E i \in 1..MaxAreas : AreaUnmap(i)
    \/ DropPageTable

SpecArea == Init /\ [][NextArea]_vars

\* MemorySet::from_elf(elf_data)
FromElf(elf) ==
    /\ panic = "none" /\ region # <<>> /\ ~pt_alive /\ areas = <<>>
    /\ SetWorldRet(from_elf(World, elf))
    /\ pt_alive' = TRUE
    /\ op' = Call("from_elf", elf, 0, 0)
    /\ UNCHANGED <<region, held, overflow_checks, cells, mapped>>

\* program headers: a code page, a data page above it, one more page above
\* that, each from an aligned start, and a header that is not of type Load
ProgramHeaders ==
    {[va |-> PAGE_SIZE, mem_size |-> PAGE_SIZE, load |-> TRUE,
      r |-> TRUE, w |-> FALSE, x |-> TRUE],
     [va |-> 2 * PAGE_SIZE, mem_size |-> 100, load |-> TRUE,
      r |-> TRUE, w |-> TRUE, x |-> FALSE],
     [va |-> 3 * PAGE_SIZE, mem_size |-> PAGE_SIZE - 8, load |-> TRUE,
      r |-> TRUE, w |-> FALSE, x |-> FALSE],
     [va |-> 0, mem_size |-> 16, load |-> FALSE,
      r |-> TRUE, w |-> FALSE, x |-> FALSE]}

\* images: up to three distinct program headers in any order, the magic
\* number right or wrong
ElfImages ==
    {[magic |-> m, phs |-> q] :
        m \in BOOLEAN,
        q \in {q \in UNION {[1..n -> ProgramHeaders] : n \in 1..3} :
                  \A i, j \in DOMAIN q : i # j => q[i] # q[j]}}

\* the regions the allocator is initialised over before from_elf
ElfRegions == {<<2, MaxPpn>>, <<2, MaxPpn - 2>>}

\* the address space of a task built from its image
NextElf ==
    \/ \E reg \in ElfRegions : InitAllocator(reg[1], reg[2])
    \/ \E elf \in ElfImages : FromElf(elf)

SpecElf == Init /\ [][NextElf]_vars

\* the buffers of sys_write: inside one page, to a page end, across one page
\* boundary, across two, empty
BufPtrs == {0, 100, PAGE_SIZE - 1, PAGE_SIZE, PAGE_SIZE + 100}
BufLens == {0, 1, PAGE_SIZE - 100, PAGE_SIZE, PAGE_SIZE + 1, 2 * PAGE_SIZE}
BufVpns == {0, 1, 2}
BufPpns == {5, 6}

\* a page table whose pages are mapped, unmapped and read through
\* translated_byte_buffer
NextBuf ==
    \/ \E reg \in KernelRegions : InitAllocator(reg[1], reg[2])
    \/ NewPageTable
    \/ \E vpn \in BufVpns, ppn \in BufPpns : Map(vpn, ppn, PTE_R + PTE_W + PTE_U)
    \/ \E vpn \in BufVpns : Unmap(vpn)
    \/ \E ptr \in BufPtrs, len \in BufLens : TranslatedByteBuffer(ptr, len)
    \/ \E ptr \in BufPtrs : TranslateFromVirtualAddress(ptr)

SpecBuf == Init /\ [][NextBuf]_vars

\* the addresses rounded: the first two pages and the last two of the address
\* range, at the offsets next to a page boundary and in the middle of a page
Addrs ==
    {p * PAGE_SIZE + o :
        p \in {0, 1, USIZE_MOD \div PAGE_SIZE - 2, USIZE_MOD \div PAGE_SIZE - 1},
        o \in {0, 1, PAGE_SIZE \div 2, PAGE_SIZE - 1}}

\* the rounding of addresses to page numbers in either build
NextAddr ==
    \/ \E kind \in {"virt", "phys"}, x \in Addrs : Floor(kind, x)
    \/ \E kind \in {"virt", "phys"}, x \in Addrs : Ceil(kind, x)

SpecAddr == Init /\ [][NextAddr]_vars

\* the layout of a kernel image that starts at page s, with t pages of .text,
\* r of .rodata, d of .data and b of .bss, each section page-aligned and
\* followed by the next
KernelLayout(s, t, r, d, b) ==
    [stext           |-> s * PAGE_SIZE,
     etext           |-> (s + t) * PAGE_SIZE,
     srodata         |-> (s + t) * PAGE_SIZE,
     erodata         |-> (s + t + r) * PAGE_SIZE,
     sdata           |-> (s + t + r) * PAGE_SIZE,
     edata           |-> (s + t + r + d) * PAGE_SIZE,
     sbss_with_stack |-> (s + t + r + d) * PAGE_SIZE,
     ebss            |-> (s + t + r + d + b) * PAGE_SIZE,
     ekernel         |-> (s + t + r + d + b) * PAGE_SIZE]

KernelLayouts ==
    {KernelLayout(s, t, r, d, b) :
        s \in 1..2, t \in 1..2, r \in 1..2, d \in 1..2, b \in 1..2}

\* the kernel address space: the allocator over the memory that follows the
\* image, new_kernel, remap_test
NextKernel ==
    \/ \E k \in KernelLayouts :
          InitAllocator(VirtAddr_ceil(k.ekernel), VirtAddr_floor(MEMORY_END))
    \/ \E k \in KernelLayouts : NewKernel(k)
    \/ RemapTest

SpecKernel == Init /\ [][NextKernel]_vars

\* root page numbers: the lowest, the highest that fit the page-number field,
\* and some that do not fit it
TokenRoots ==
    (0..15) \cup {PPN_MOD - k : k \in 1..12} \cup {PPN_MOD, PPN_MOD + 1, 3 * PPN_MOD + 5}

\* tokens made and read back
NextToken ==
    \/ \E root_ppn \in TokenRoots : Token(root_ppn)
    \/ FromToken

SpecToken == Init /\ [][NextToken]_vars

\* the ranges of the mmap and munmap calls made next to the trampoline: a low
\* page, the page below the trampoline, that page and one byte more, the
\* trampoline page itself, an empty range and one byte at the trampoline
TrampolineArgs ==
    {<<0, PAGE_SIZE>>, <<TRAP_CONTEXT, PAGE_SIZE>>, <<TRAP_CONTEXT, PAGE_SIZE + 1>>,
     <<TRAMPOLINE, PAGE_SIZE>>, <<TRAMPOLINE, 0>>, <<TRAMPOLINE, 1>>}

\* an address space with the trampoline under mmap and munmap calls
NextTrampoline ==
    \/ \E reg \in KernelRegions : InitAllocator(reg[1], reg[2])
    \/ NewBare
    \/ MapTrampoline
    \/ \E args \in TrampolineArgs, port \in {3, 5} : Mmap(args[1], args[2], port)
    \/ \E args \in TrampolineArgs : Munmap(args[1], args[2])

SpecTrampoline == Init /\ [][NextTrampoline]_vars

\* one control flow that takes and drops the guards of the two singletons and
\* calls init, alloc and dealloc on the allocator
NextCells ==
    \/ \E reg \in KernelRegions : InitFrameAllocator(reg[1], reg[2])
    \/ ExclusiveAccess
    \/ Lock
    \/ \E c \in {"FRAME_ALLOCATOR", "KERNEL_SPACE"} : DropGuard(c)
    \/ GuardAlloc
    \/ \E ppn \in 2..5 : GuardDealloc(ppn)

SpecCells == Init /\ [][NextCells]_vars

\* one page table under direct map, unmap and translate calls
NextPT ==
    \/ \E reg \in KernelRegions : InitAllocator(reg[1], reg[2])
    \/ NewPageTable
    \/ \E vpn \in Vpns, ppn \in Ppns, flags \in Flags : Map(vpn, ppn, flags)
    \/ \E vpn \in Vpns : Unmap(vpn)
    \/ \E vpn \in Vpns : Translate(vpn)
    \/ \E vpn \in Vpns : FindPte(vpn)

SpecPT == Init /\ [][NextPT]_vars

----------------------------------------------------------------------------
\* Properties

\* the number of live FrameTrackers that hold page number p: the caller's
\* trackers, the page table's node frames and the data frames of the areas
Holders(p) ==
    Cardinality({i \in 1..Len(held) : held[i] = p})
    + Cardinality({i \in 1..Len(page_table.frames) : page_table.frames[i] = p})
    + Cardinality({x \in UNION {{<<i, v>> : v \in DOMAIN areas[i].data_frames} :
                                    i \in 1..Len(areas)} :
                      areas[x[1]].data_frames[x[2]] = p})

\* the covering page range of a call with arguments start, len
RangeL(start) == VirtAddr_floor(start)
RangeR(start, len) == VirtAddr_ceil(start + len)

\* the allocator, the page table, physical memory and the area list
AddressSpace == <<current, end, recycled, mem, page_table, areas>>

\* C1: no physical page number is held by two live FrameTrackers, and a page
\* number held by a live FrameTracker is not in the recycled stack, so it is
\* not handed out again before its tracker is dropped.
C1_NoFrameHeldTwice ==
    \A p \in 0..(MaxPpn - 1) :
        /\ Holders(p) <= 1
        /\ (Holders(p) = 1 => (~Contains(recycled, p) /\ p < current))

\* a recycled frame was handed out again while other trackers are live
C1_Witness ==
    /\ op.name = "frame_alloc" /\ ret # NONE /\ ret + 1 < current
    /\ Len(held) = 1 /\ Len(areas) > 0 /\ panic = "none"

\* C2: every sys_mmap / sys_munmap call returns 0 or -1 and none ends in a
\* fatal abort of the page table or the frame allocator. Running out of frames
\* is outside the claim (it supposes free frames); the abort of ceil at
\* address 0 in a build with overflow checks is a separate matter and is left
\* out of this formula, so that a violation is an abort on mapped ranges.
C2_NoFatalAbort ==
    /\ panic \in {"none", "oom", "overflow"}
    /\ (op.name \in {"sys_mmap", "sys_munmap"} /\ panic = "none" => ret \in {0, -1})

\* C3: a sys_mmap that returned 0 (no page of its range was mapped), followed
\* by sys_munmap of the same start and len, returns 0 again and leaves no page
\* of the range with a valid translation.
C3_MmapThenMunmap ==
    [][(/\ op.name = "sys_mmap" /\ ret = 0 /\ panic = "none"
        /\ op'.name = "sys_munmap" /\ op'.a = op.a /\ op'.b = op.b)
       => (/\ panic' = "none"
           /\ ret' = 0
           /\ ~AnyValid(mem', page_table'.root_ppn,
                        RangeL(op.a), RangeR(op.a, op.b)))]_vars

\* C4: mmap returns -1 when a page of its covering range has a valid
\* translation, and then leaves the page table, the area list and the frame
\* allocator as they were.
C4_MmapRejectsMapped ==
    [][(/\ op'.name = "mmap"
        /\ AnyValid(mem, page_table.root_ppn, RangeL(op'.a), RangeR(op'.a, op'.b)))
       => (ret' = -1 /\ panic' = "none" /\ UNCHANGED AddressSpace)]_vars

\* a second mmap over a page that an earlier mmap mapped returned -1
C4_Witness ==
    /\ op.name = "mmap" /\ ret = -1 /\ panic = "none" /\ Len(areas) > 0
    /\ AnyValid(mem, page_table.root_ppn, RangeL(op.a), RangeR(op.a, op.b))

\* C5: munmap returns -1 when a page of its covering range has no valid
\* translation, and then no page is unmapped and no frame is released.
C5_MunmapRejectsUnmapped ==
    [][(/\ op'.name = "munmap"
        /\ AnyInvalid(mem, page_table.root_ppn, RangeL(op'.a), RangeR(op'.a, op'.b)))
       => (ret' = -1 /\ panic' = "none" /\ UNCHANGED AddressSpace)]_vars

\* a munmap over a range of which one page is mapped and one is not returned -1
C5_Witness ==
    /\ op.name = "munmap" /\ ret = -1 /\ panic = "none"
    /\ AnyValid(mem, page_table.root_ppn, RangeL(op.a), RangeR(op.a, op.b))
    /\ AnyInvalid(mem, page_table.root_ppn, RangeL(op.a), RangeR(op.a, op.b))

\* C6: sys_mmap with a start that is not page-aligned, or a port whose low
\* three bits are zero, or a port with a bit outside the low three, and
\* sys_munmap with a start that is not page-aligned, return -1 and change
\* nothing of the address space.
C6_SyscallRejectsArguments ==
    [][(\/ /\ op'.name = "sys_mmap"
           /\ \/ op'.a % PAGE_SIZE # 0
              \/ op'.c % 8 = 0
              \/ op'.c \div 8 # 0
        \/ /\ op'.name = "sys_munmap"
           /\ op'.a % PAGE_SIZE # 0)
       => (ret' = -1 /\ panic' = "none" /\ UNCHANGED AddressSpace)]_vars

\* sys_mmap of an unmapped aligned range with a port bit outside the low three
\* returned -1 in an address space that has mapped pages
C6_Witness ==
    /\ op.name = "sys_mmap" /\ ret = -1 /\ panic = "none"
    /\ op.a % PAGE_SIZE = 0 /\ op.c % 8 # 0 /\ op.c \div 8 # 0 /\ op.b > 0
    /\ ~AnyValid(mem, page_table.root_ppn, RangeL(op.a), RangeR(op.a, op.b))
    /\ AnyValid(mem, page_table.root_ppn, 0, 3)

\* C7: every page number alloc returns lies in the [l, r) given to init.
C7_AllocInRange ==
    (op.name = "alloc" /\ ret # NONE) => (region[1] <= ret /\ ret < region[2])

\* C8: dealloc(ppn) aborts when ppn >= current or ppn is in the recycled
\* stack; otherwise it pushes ppn and leaves current and end unchanged.
C8_Dealloc ==
    [][op'.name = "dealloc"
       => IF op'.a >= current \/ Contains(recycled, op'.a)
          THEN panic' = "dealloc"
          ELSE /\ panic' = "none"
               /\ recycled' = Append(recycled, op'.a)
               /\ current' = current
               /\ end' = end]_vars

\* a double free aborted
C8_Witness ==
    /\ op.name = "dealloc" /\ panic = "dealloc"
    /\ op.a < current /\ Contains(recycled, op.a)

\* C9: alloc returns the top of the recycled stack when it is not empty,
\* otherwise current (advancing it by one), and None, changing nothing, exactly
\* when the stack is empty and current = end.
C9_Alloc ==
    [][op'.name = "alloc"
       => IF Len(recycled) > 0
          THEN /\ ret' = recycled[Len(recycled)]
               /\ recycled' = SubSeq(recycled, 1, Len(recycled) - 1)
               /\ current' = current /\ end' = end
          ELSE IF current = end
          THEN ret' = NONE /\ recycled' = recycled /\ current' = current /\ end' = end
          ELSE /\ ret' = current /\ ret' # NONE
               /\ current' = current + 1
               /\ recycled' = recycled /\ end' = end]_vars

\* alloc handed out the page freed last while an earlier freed one waits
C9_Witness ==
    /\ op.name = "alloc" /\ ret # NONE /\ ret + 1 < current
    /\ Len(recycled) > 0 /\ panic = "none"

\* C10, as claimed: map followed at once by unmap of the same vpn makes
\* translate(vpn) return None.
C10_TranslateNoneAfterUnmap ==
    [][(/\ op.name = "map" /\ panic = "none"
        /\ op'.name = "unmap" /\ op'.a = op.a)
       => ~translate(mem', page_table'.root_ppn, op.a).some]_vars

\* C10, amended: map followed at once by unmap of the same vpn does not abort
\* and makes translate(vpn) return the empty entry, which is not valid.
C10_TranslateEmptyAfterUnmap ==
    [][(/\ op.name = "map" /\ panic = "none"
        /\ op'.name = "unmap" /\ op'.a = op.a)
       => (/\ panic' = "none"
           /\ translate(mem', page_table'.root_ppn, op.a).some
           /\ translate(mem', page_table'.root_ppn, op.a).bits = PageTableEntry_empty
           /\ ~is_valid(translate(mem', page_table'.root_ppn, op.a).bits))]_vars

\* an unmap went through and translate finds the cleared leaf entry
C10_Witness ==
    /\ op.name = "unmap" /\ panic = "none"
    /\ translate(mem, page_table.root_ppn, op.a).some
    /\ translate(mem, page_table.root_ppn, op.a).bits = PageTableEntry_empty
    /\ Len(page_table.frames) >= 3

\* two virtual page numbers share their level-0 and level-1 indices: their
\* leaf entries lie in the same node
SameLeafNode(u, v) ==
    indexes(u)[1] = indexes(v)[1] /\ indexes(u)[2] = indexes(v)[2]

\* C11, as claimed: translate(vpn) is None for every vpn that has not been
\* mapped, whatever other vpns have been mapped in the table.
C11_TranslateNoneUnlessMapped ==
    (pt_alive /\ panic = "none")
        => \A vpn \in Vpns \ mapped : ~translate(mem, page_table.root_ppn, vpn).some

\* C11, amended: translate(vpn) of a vpn that has not been mapped never gives
\* a valid entry; it is None when no mapped vpn shares the leaf node of vpn
\* (so for every vpn of a fresh table), and the empty entry otherwise.
C11_TranslateNotValidUnlessMapped ==
    (pt_alive /\ panic = "none")
        => \A vpn \in Vpns \ mapped :
              IF \E u \in mapped : SameLeafNode(u, vpn)
              THEN /\ translate(mem, page_table.root_ppn, vpn).some
                   /\ translate(mem, page_table.root_ppn, vpn).bits = PageTableEntry_empty
              ELSE ~translate(mem, page_table.root_ppn, vpn).some

\* one vpn is mapped; of the vpns never mapped, one has its leaf node in place
\* and one has not
C11_Witness ==
    /\ pt_alive /\ panic = "none" /\ op.name = "translate" /\ mapped # {}
    /\ \E v \in Vpns \ mapped : translate(mem, page_table.root_ppn, v).some
    /\ \E v \in Vpns \ mapped : ~translate(mem, page_table.root_ppn, v).some

\* C12: map(vpn, ppn, flags) on a vpn whose leaf entry is not valid makes
\* translate(vpn) return the entry with that ppn and flags | V (unless the
\* frames for the nodes ran out); on a vpn whose leaf entry is valid it is
\* fatal and leaves every entry as it was.
C12_Map ==
    [][op'.name = "map"
       => IF ValidAt(mem, page_table.root_ppn, op'.a)
          THEN panic' = "map_assert" /\ mem' = mem
          ELSE panic' # "oom"
               => /\ panic' = "none"
                  /\ translate(mem', page_table'.root_ppn, op'.a).some
                  /\ pte_ppn(translate(mem', page_table'.root_ppn, op'.a).bits) = op'.b
                  /\ pte_flags(translate(mem', page_table'.root_ppn, op'.a).bits)
                         = BitOr(op'.c, PTE_V)]_vars

\* a second map of a mapped vpn with another ppn aborted, the entry of the
\* first map still in place
C12_Witness ==
    /\ op.name = "map" /\ panic = "map_assert"
    /\ translate(mem, page_table.root_ppn, op.a).some
    /\ is_valid(translate(mem, page_table.root_ppn, op.a).bits)
    /\ pte_ppn(translate(mem, page_table.root_ppn, op.a).bits) # op.b

\* C13: unmap(vpn) on a vpn whose leaf entry is valid clears the entry to
\* empty; on a vpn whose leaf entry is not valid, or is not there, it is fatal.
C13_Unmap ==
    [][op'.name = "unmap"
       => IF ValidAt(mem, page_table.root_ppn, op'.a)
          THEN /\ panic' = "none"
               /\ translate(mem', page_table'.root_ppn, op'.a).some
               /\ translate(mem', page_table'.root_ppn, op'.a).bits = PageTableEntry_empty
          ELSE panic' \in {"unmap_assert", "oom"}]_vars

\* a second unmap of a vpn that was mapped and unmapped aborted
C13_Witness ==
    /\ op.name = "unmap" /\ panic = "unmap_assert" /\ op.a \in mapped
    /\ translate(mem, page_table.root_ppn, op.a).some
    /\ translate(mem, page_table.root_ppn, op.a).bits = PageTableEntry_empty

\* the number of FrameTrackers that hold page number p among the caller's
\* trackers hs, the node frames of page table pt and the areas ars
HoldersIn(hs, pt, ars, p) ==
    Cardinality({i \in 1..Len(hs) : hs[i] = p})
    + Cardinality({i \in 1..Len(pt.frames) : pt.frames[i] = p})
    + Cardinality({x \in UNION {{<<i, v>> : v \in DOMAIN ars[i].data_frames} :
                                    i \in 1..Len(ars)} :
                      ars[x[1]].data_frames[x[2]] = p})

\* the frames of an area in the order of its pages
AreaFrames(area) == [k \in 1..(area.r - area.l) |-> area.data_frames[area.l + k - 1]]

\* the page numbers that n successive alloc calls return
RECURSIVE AllocN(_, _)
AllocN(a, n) ==
    IF n = 0 THEN <<>>
    ELSE <<alloc(a).ppn>> \o AllocN(alloc(a).a, n - 1)

\* a sequence back to front
RECURSIVE Reverse(_)
Reverse(q) == IF q = <<>> THEN <<>> ELSE Append(Reverse(Tail(q)), Head(q))

\* C14: after the map of a Framed area every page of its range has a valid
\* entry that points to the frame recorded for the page, and that frame has
\* no other holder; after the unmap of a mapped area no page of its range has a
\* valid entry, the area holds no frame, and the next allocs hand its frames
\* out again, the frame of the last page first.
C14_FramedAreaMapUnmap ==
    [][/\ (op'.name = "insert_framed_area" /\ panic' = "none")
          => \A v \in areas'[Len(areas')].l..(areas'[Len(areas')].r - 1) :
                /\ v \in DOMAIN areas'[Len(areas')].data_frames
                /\ ValidAt(mem', page_table'.root_ppn, v)
                /\ pte_ppn(translate(mem', page_table'.root_ppn, v).bits)
                      = areas'[Len(areas')].data_frames[v]
                /\ HoldersIn(held', page_table', areas',
                             areas'[Len(areas')].data_frames[v]) = 1
       /\ (/\ op'.name = "area_unmap" /\ panic' = "none"
           /\ DOMAIN areas[op'.a].data_frames = areas[op'.a].l..(areas[op'.a].r - 1))
          => /\ ~AnyValid(mem', page_table'.root_ppn, areas[op'.a].l, areas[op'.a].r)
             /\ areas'[op'.a].data_frames = EmptyPage
             /\ recycled' = recycled \o AreaFrames(areas[op'.a])
             /\ AllocN([current |-> current', end |-> end', recycled |-> recycled'],
                       areas[op'.a].r - areas[op'.a].l)
                   = Reverse(AreaFrames(areas[op'.a]))]_vars

\* a two-page area was unmapped while another area keeps its frame
C14_Witness ==
    /\ op.name = "area_unmap" /\ panic = "none" /\ Len(areas) = 2
    /\ areas[op.a].r - areas[op.a].l = 2
    /\ areas[op.a].data_frames = EmptyPage
    /\ Len(recycled) >= 2
    /\ \E i \in 1..Len(areas) : areas[i].data_frames # EmptyPage

\* two areas have a virtual page in common
Overlap(a1, a2) ==
    (IF a1.l > a2.l THEN a1.l ELSE a2.l) < (IF a1.r < a2.r THEN a1.r ELSE a2.r)

\* C15: after any sequence of calls that returned, no two MapAreas of the
\* area list have overlapping virtual page ranges.
C15_NoOverlappingAreas ==
    panic = "none"
        => \A i, j \in 1..Len(areas) : i < j => ~Overlap(areas[i], areas[j])

\* the page numbers the allocator has handed out and not taken back
Allocated(cur, rec, reg) == {p \in reg[1]..(cur - 1) : ~Contains(rec, p)}

\* the page numbers held as data frames by the areas ars
DataFrames(ars) ==
    UNION {{ars[i].data_frames[v] : v \in DOMAIN ars[i].data_frames} : i \in 1..Len(ars)}

\* C16: after every call that returned, each allocated frame has exactly one
\* owner (a node frame of the page table, a data frame of one area, or a
\* tracker of a caller) and a frame that is not allocated has none; the drop
\* of the PageTable gives its node frames back to the allocator, in order,
\* and no data frame of an area.
C16_OneOwner ==
    [][/\ (panic' = "none" /\ region' # <<>>)
          => \A p \in 0..(MaxPpn - 1) :
                HoldersIn(held', page_table', areas', p)
                   = (IF p \in Allocated(current', recycled', region') THEN 1 ELSE 0)
       /\ op'.name = "drop_page_table"
          => /\ panic' = "none"
             /\ recycled' = recycled \o page_table.frames
             /\ page_table'.frames = <<>>
             /\ current' = current /\ areas' = areas
             /\ \A p \in DataFrames(areas) : ~Contains(recycled', p)]_vars

\* a PageTable with three node frames was dropped while an area holds the
\* data frame of a page
C16_Witness ==
    /\ op.name = "drop_page_table" /\ panic = "none"
    /\ Len(recycled) >= 3 /\ DataFrames(areas) # {}
    /\ \A p \in DataFrames(areas) : ~Contains(recycled, p)

\* the highest end page number of the loadable segments of phs
RECURSIVE HighestEnd(_)
HighestEnd(phs) ==
    IF phs = <<>> THEN 0
    ELSE IF ~Head(phs).load THEN HighestEnd(Tail(phs))
    ELSE IF VirtAddr_ceil(Head(phs).va + Head(phs).mem_size) > HighestEnd(Tail(phs))
    THEN VirtAddr_ceil(Head(phs).va + Head(phs).mem_size)
    ELSE HighestEnd(Tail(phs))

\* C17: from_elf leaves the page at the highest segment end unmapped (guard
\* page), maps the USER_STACK_SIZE bytes above the guard with R+W+U and no
\* page above them, returns the top of that stack, and maps the trap-context
\* page, in whatever order the program headers list the segments.
C17_FromElfLayout ==
    [][(op'.name = "from_elf" /\ panic' = "none")
       => /\ ~ValidAt(mem', page_table'.root_ppn, HighestEnd(op'.a.phs))
          /\ \A v \in (HighestEnd(op'.a.phs) + 1)
                        ..(HighestEnd(op'.a.phs) + USER_STACK_SIZE \div PAGE_SIZE) :
                /\ ValidAt(mem', page_table'.root_ppn, v)
                /\ pte_flags(translate(mem', page_table'.root_ppn, v).bits)
                      = PTE_R + PTE_W + PTE_U + PTE_V
          /\ ~ValidAt(mem', page_table'.root_ppn,
                      HighestEnd(op'.a.phs) + 1 + USER_STACK_SIZE \div PAGE_SIZE)
          /\ ret' = (HighestEnd(op'.a.phs) + 1) * PAGE_SIZE + USER_STACK_SIZE
          /\ ValidAt(mem', page_table'.root_ppn, TRAP_CONTEXT_VPN)]_vars

\* the sum of the lengths of the slices of v
RECURSIVE SumLen(_)
SumLen(v) == IF v = <<>> THEN 0 ELSE (Head(v).to - Head(v).from) + SumLen(Tail(v))

\* the number of virtual pages that [ptr, ptr + len) touches
PagesTouched(ptr, len) ==
    IF len = 0 THEN 0
    ELSE VirtAddr_floor(ptr + len - 1) - VirtAddr_floor(ptr) + 1

\* C18: when every page of [ptr, ptr + len) is mapped in the table of the
\* token, translated_byte_buffer returns one slice per virtual page touched,
\* in ascending address order, the slice of a page lying inside the physical
\* page that virtual page translates to, starting at the page offset of the
\* first byte of the request in that page and covering the bytes of the
\* request in that page; the lengths sum to len, and len = 0 gives no slice.
C18_TranslatedByteBuffer ==
    [][(/\ op'.name = "translated_byte_buffer"
        /\ \A vpn \in VirtAddr_floor(op'.a)..VirtAddr_floor(op'.a + op'.b - 1) :
              ValidAt(mem, from_token(op'.c), vpn))
       => /\ panic' = "none"
          /\ Len(ret') = PagesTouched(op'.a, op'.b)
          /\ SumLen(ret') = op'.b
          /\ \A i \in 1..Len(ret') :
                /\ ret'[i].ppn
                     = pte_ppn(translate(mem, from_token(op'.c),
                                         VirtAddr_floor(op'.a) + i - 1).bits)
                /\ ret'[i].from = (IF i = 1 THEN page_offset(op'.a) ELSE 0)
                /\ ret'[i].from < ret'[i].to
                /\ ret'[i].to <= PAGE_SIZE
                /\ ret'[i].to = (IF i = Len(ret') /\ page_offset(op'.a + op'.b) # 0
                                 THEN page_offset(op'.a + op'.b) ELSE PAGE_SIZE)]_vars

\* a request that spans exactly two mapped pages of different frames has
\* returned its two slices
C18_Witness ==
    /\ op.name = "translated_byte_buffer"
    /\ panic = "none"
    /\ PagesTouched(op.a, op.b) = 2
    /\ Len(ret) = 2
    /\ ret[1].ppn # ret[2].ppn
    /\ ret[1].from > 0

\* C19: for every address x, 0 and the largest included, floor and ceil
\* return without overflow or abort, floor(x) * PAGE_SIZE <= x and
\* x <= ceil(x) * PAGE_SIZE, each with equality exactly when x is page-aligned.
C19_FloorCeilBracket ==
    [][/\ (op'.name = "floor")
           => /\ panic' = "none"
              /\ ret' * PAGE_SIZE <= op'.a
              /\ (ret' * PAGE_SIZE = op'.a) <=> (page_offset(op'.a) = 0)
       /\ (op'.name = "ceil")
           => /\ panic' = "none"
              /\ op'.a <= ret' * PAGE_SIZE
              /\ (ret' * PAGE_SIZE = op'.a) <=> (page_offset(op'.a) = 0)]_vars

\* every page of [start_va, end_va) is mapped to the frame of its own number
\* with exactly the flags given and Valid
IdenticalWith(m, root, start_va, end_va, flags) ==
    \A vpn \in VirtAddr_floor(start_va)..(VirtAddr_ceil(end_va) - 1) :
        /\ ValidAt(m, root, vpn)
        /\ pte_ppn(translate(m, root, vpn).bits) = vpn
        /\ pte_flags(translate(m, root, vpn).bits) = flags + PTE_V

\* C20: in the address space new_kernel returns, every page of .text is
\* mapped identically R+X (not writable), every page of .rodata R (not
\* writable), every page of .data and of .bss R+W (not executable), and every
\* page from the kernel image end up to MEMORY_END identically R+W.
C20_KernelSpace ==
    [][(op'.name = "new_kernel" /\ panic' = "none")
       => /\ IdenticalWith(mem', page_table'.root_ppn, op'.a.stext, op'.a.etext,
                           PTE_R + PTE_X)
          /\ IdenticalWith(mem', page_table'.root_ppn, op'.a.srodata, op'.a.erodata,
                           PTE_R)
          /\ IdenticalWith(mem', page_table'.root_ppn, op'.a.sdata, op'.a.edata,
                           PTE_R + PTE_W)
          /\ IdenticalWith(mem', page_table'.root_ppn, op'.a.sbss_with_stack,
                           op'.a.ebss, PTE_R + PTE_W)
          /\ IdenticalWith(mem', page_table'.root_ppn, op'.a.ekernel, MEMORY_END,
                           PTE_R + PTE_W)
          /\ \A vpn \in VirtAddr_floor(op'.a.stext)..(VirtAddr_ceil(op'.a.erodata) - 1) :
                ~writable(translate(mem', page_table'.root_ppn, vpn).bits)
          /\ \A vpn \in VirtAddr_floor(op'.a.sdata)..(VirtAddr_ceil(op'.a.ebss) - 1) :
                ~executable(translate(mem', page_table'.root_ppn, vpn).bits)]_vars

\* new_kernel has returned for an image with two pages of .text and two of
\* .rodata
C20_Witness ==
    /\ op.name = "new_kernel"
    /\ panic = "none"
    /\ Len(areas) = 5
    /\ op.a.etext - op.a.stext = 2 * PAGE_SIZE
    /\ op.a.erodata - op.a.srodata = 2 * PAGE_SIZE
    /\ ValidAt(mem, page_table.root_ppn, VirtAddr_floor(op.a.srodata) + 1)
    /\ ValidAt(mem, page_table.root_ppn, VirtAddr_floor(MEMORY_END) - 1)

\* C21: for a root page number that fits the page-number field, the top four
\* bits of token() are the mode selector 8 and its low bits are the root page
\* number, and from_token of the token has the same root.
C21_TokenRoundTrip ==
    [][/\ (op'.name = "token" /\ op'.a < PPN_MOD)
           => /\ ret' \div Pow2(USIZE_BITS - 4) = 8
              /\ ret' % PPN_MOD = op'.a
              /\ ret' < USIZE_MOD
       /\ (op'.name = "from_token" /\ op'.b < PPN_MOD)
           => ret' = op'.b]_vars

\* the token of the highest root page number that fits has been read back
C21_Witness ==
    /\ op.name = "from_token"
    /\ op.b = PPN_MOD - 1
    /\ op.a = token(PPN_MOD - 1)
    /\ ret = PPN_MOD - 1

\* C22: after init, in every state that alloc and dealloc calls reach, every
\* entry of the recycled stack is below current, no page number is in the
\* recycled stack twice, and current <= end.
C22_AllocatorInvariant ==
    /\ \A i \in 1..Len(recycled) : recycled[i] < current
    /\ \A i, j \in 1..Len(recycled) : i # j => recycled[i] # recycled[j]
    /\ current <= end

\* two page numbers wait in the recycled stack after a dealloc that returned,
\* with fresh page numbers still left
C22_Witness ==
    /\ op.name = "dealloc" /\ panic = "none"
    /\ Len(recycled) = 2
    /\ current < end

\* the pages looked at around the ranges of mmap and munmap
NearPages == 0..4

\* C23: a munmap(start, len) that returns 0 leaves every page outside its
\* covering range with the translation and the data frame it had, pages of an
\* area that lost another page included, and leaves the area list with the
\* same areas (none removed, none resized).
C23_MunmapOnlyItsRange ==
    [][(op'.name = "munmap" /\ ret' = 0 /\ panic' = "none")
       => /\ \A vpn \in NearPages \ (RangeL(op'.a)..(RangeR(op'.a, op'.b) - 1)) :
                translate(mem', page_table'.root_ppn, vpn)
                  = translate(mem, page_table.root_ppn, vpn)
          /\ Len(areas') = Len(areas)
          /\ \A i \in 1..Len(areas) :
                /\ areas'[i].l = areas[i].l /\ areas'[i].r = areas[i].r
                /\ areas'[i].map_type = areas[i].map_type
                /\ areas'[i].map_permission = areas[i].map_permission
                /\ \A vpn \in DOMAIN areas[i].data_frames
                              \ (RangeL(op'.a)..(RangeR(op'.a, op'.b) - 1)) :
                      /\ vpn \in DOMAIN areas'[i].data_frames
                      /\ areas'[i].data_frames[vpn] = areas[i].data_frames[vpn]]_vars

\* munmap has taken page 0 out of a two-page area: the area is still listed,
\* page 1 is still mapped to its frame
C23_Witness ==
    /\ op.name = "munmap" /\ ret = 0 /\ panic = "none"
    /\ RangeL(op.a) = 0 /\ RangeR(op.a, op.b) = 1
    /\ Len(areas) = 1
    /\ areas[1].l = 0 /\ areas[1].r = 2
    /\ DOMAIN areas[1].data_frames = {1}
    /\ ValidAt(mem, page_table.root_ppn, 1)
    /\ pte_ppn(translate(mem, page_table.root_ppn, 1).bits) = areas[1].data_frames[1]

\* the leaf flags the claim gives for port: Valid, User, and Read, Write,
\* eXecute for the bits 0, 1, 2 of port
PortFlags(port) ==
    PTE_V + PTE_U
    + (IF port % 2 = 1 THEN PTE_R ELSE 0)
    + (IF (port \div 2) % 2 = 1 THEN PTE_W ELSE 0)
    + (IF (port \div 4) % 2 = 1 THEN PTE_X ELSE 0)

ValidEntries(m, n) == {<<n, i>> : i \in {i \in DOMAIN m[n] : is_valid(m[n][i])}}

\* the valid intermediate entries reachable from root: those of the root node
\* (level 0) and those of the nodes they point to (level 1)
IntermediateEntries(m, root) ==
    ValidEntries(m, root)
    \cup UNION {ValidEntries(m, pte_ppn(m[e[1]][e[2]])) : e \in ValidEntries(m, root)}

\* the number of entries that are not valid on the walk to the leaf of vpn
MissingNodes(m, root, vpn) ==
    IF ~is_valid(ReadPte(m, root, indexes(vpn)[1])) THEN 2
    ELSE IF ~is_valid(ReadPte(m, pte_ppn(ReadPte(m, root, indexes(vpn)[1])),
                              indexes(vpn)[2])) THEN 1
    ELSE 0

\* C25: the find_pte_create of a map or unmap call allocates one node frame
\* for each level-0 or level-1 entry on its walk that is not valid and none
\* else, installs it with only the Valid bit and appends it to the table's
\* frame list; after the call every valid intermediate entry reachable from
\* the root points to a frame of that list, and every intermediate entry that
\* was valid before is still there with the same value.
C25_FindPteCreate ==
    [][(op'.name \in {"map", "unmap"})
       => /\ (panic' # "oom")
              => /\ Len(page_table'.frames)
                      = Len(page_table.frames)
                        + MissingNodes(mem, page_table.root_ppn, op'.a)
                 /\ Cardinality(Allocated(current', recycled', region'))
                      = Cardinality(Allocated(current, recycled, region))
                        + MissingNodes(mem, page_table.root_ppn, op'.a)
          /\ SubSeq(page_table'.frames, 1, Len(page_table.frames)) = page_table.frames
          /\ page_table'.root_ppn = page_table.root_ppn
          /\ \A e \in IntermediateEntries(mem', page_table'.root_ppn) :
                /\ Contains(page_table'.frames, pte_ppn(mem'[e[1]][e[2]]))
                /\ pte_flags(mem'[e[1]][e[2]]) = PTE_V
                /\ pte_ppn(mem'[e[1]][e[2]]) \in Allocated(current', recycled', region')
          /\ \A e \in IntermediateEntries(mem, page_table.root_ppn) :
                /\ e \in IntermediateEntries(mem', page_table'.root_ppn)
                /\ mem'[e[1]][e[2]] = mem[e[1]][e[2]]]_vars

\* a map call has built a second branch of the tree: the walk found the
\* root entry not valid and the table now owns five node frames
C25_Witness ==
    /\ op.name = "map" /\ panic = "none"
    /\ Len(page_table.frames) = 5
    /\ Cardinality(IntermediateEntries(mem, page_table.root_ppn)) = 4

\* C26: find_pte(vpn) and translate(vpn) allocate no frame and leave the
\* page-table entries, the table's root and frame list, the areas and the
\* allocator as they were; both give the absence signal exactly when a
\* level-0 or level-1 entry on the walk is not valid.
C26_FindPteReadOnly ==
    [][(op'.name \in {"find_pte", "translate"})
       => /\ UNCHANGED <<current, end, recycled, mem, page_table, areas>>
          /\ panic' = "none"
          /\ (ret' = NONE) <=> (MissingNodes(mem, page_table.root_ppn, op'.a) > 0)]_vars

\* find_pte gave the absence signal at the root entry of a page of a branch
\* that was never built, in a table that owns the nodes of another branch,
\* with frames left to allocate
C26_Witness ==
    /\ op.name = "find_pte" /\ panic = "none"
    /\ ret = NONE
    /\ Len(page_table.frames) = 3
    /\ current < end
    /\ ~is_valid(ReadPte(mem, page_table.root_ppn, indexes(op.a)[1]))

\* C27: the PageTable that translated_byte_buffer builds with from_token owns
\* no frame: making it, translating through it and dropping it give no frame
\* back to the allocator and leave the table it views as it was, its root
\* node and its other nodes still allocated and owned by that table.
C27_FromTokenOwnsNothing ==
    [][(op'.name = "translated_byte_buffer")
       => /\ UNCHANGED <<current, end, recycled, mem, page_table, areas>>
          /\ from_token(op'.c) = page_table'.root_ppn
          /\ \A i \in 1..Len(page_table'.frames) :
                page_table'.frames[i] \in Allocated(current', recycled', region')]_vars

\* a request over two mapped pages has returned and the view has been dropped
C27_Witness ==
    /\ op.name = "translated_byte_buffer" /\ panic = "none"
    /\ Len(ret) = 2
    /\ Len(page_table.frames) = 3
    /\ recycled = <<>>
    /\ ValidAt(mem, page_table.root_ppn, 0)
    /\ ValidAt(mem, page_table.root_ppn, 1)

\* C28: once map_trampoline has returned, in every state that mmap and
\* munmap calls reach, the trampoline page translates to the valid entry
\* map_trampoline wrote (the page of strampoline, R + X), no MapArea covers
\* the page and no MapArea holds a data frame for it.
C28_TrampolineStays ==
    (pt_alive /\ TRAMPOLINE_VPN \in mapped)
    => /\ translate(mem, page_table.root_ppn, TRAMPOLINE_VPN)
          = [some |-> TRUE,
             bits |-> PageTableEntry_new(strampoline \div PAGE_SIZE,
                                         PTE_R + PTE_X + PTE_V)]
       /\ \A i \in 1..Len(areas) :
             /\ ~(areas[i].l <= TRAMPOLINE_VPN /\ TRAMPOLINE_VPN < areas[i].r)
             /\ TRAMPOLINE_VPN \notin DOMAIN areas[i].data_frames

\* the page below the trampoline was mapped by mmap and has been unmapped by
\* a munmap that returned 0, in an address space that has the trampoline
C28_Witness ==
    /\ op.name = "munmap" /\ ret = 0 /\ panic = "none"
    /\ op.a = TRAP_CONTEXT /\ op.b = PAGE_SIZE
    /\ TRAMPOLINE_VPN \in mapped
    /\ Len(areas) >= 1
    /\ ~ValidAt(mem, page_table.root_ppn, TRAP_CONTEXT_VPN)

\* C29: an access to the frame allocator cell or to the kernel address space
\* cell, made while a guard of that cell is alive, panics, and leaves no
\* control flow waiting on the cell.
C29_ReentrantAccessPanics ==
    [][/\ (op'.name = "exclusive_access" /\ cells.FRAME_ALLOCATOR)
           => (panic' # "none" /\ cells'.spinning = "none")
       /\ (op'.name = "lock" /\ cells.KERNEL_SPACE)
           => (panic' # "none" /\ cells'.spinning = "none")]_vars

\* C30: frame conservation. In the life of a MemorySet that is the only
\* owner of frames, the MemorySet is created with all frames of the
\* allocator's region free, and its destruction does not abort, returns every
\* frame allocated on its behalf (page-table nodes and data frames) exactly
\* once and so leaves the set of free page numbers what it was before
\* new_bare: the whole region.
C30_FrameConservation ==
    [][/\ op'.name = "new_bare" => Allocated(current, recycled, region) = {}
       /\ op'.name = "drop_memory_set"
            => /\ panic' = "none"
               /\ Allocated(current', recycled', region') = {}
               /\ \A i, j \in 1..Len(recycled') :
                     recycled'[i] = recycled'[j] => i = j
               /\ \A i \in 1..Len(recycled') : recycled'[i] < current'
               /\ page_table'.frames = <<>> /\ areas' = <<>>]_vars

\* a MemorySet that owned three page-table nodes and at least two data
\* frames has just been destroyed, and every frame of the region is free
C30_Witness ==
    /\ op.name = "drop_memory_set" /\ panic = "none"
    /\ Len(recycled) >= 5
    /\ Allocated(current, recycled, region) = {}

\* C31: translated_byte_buffer and translate_from_virtual_address give
\* access to physical memory only through valid leaf entries: a call that
\* returns has found a valid leaf entry for every page it gives a slice or
\* an address for; on a page without a valid translation it does not return
\* a result made from the page number of the invalid entry.
C31_OnlyValidLeaves ==
    [][/\ (op'.name = "translated_byte_buffer" /\ panic' = "none")
            => \A i \in 1..Len(ret') :
                  ValidAt(mem, from_token(op'.c), VirtAddr_floor(op'.a) + i - 1)
       /\ (op'.name = "translate_from_virtual_address" /\ panic' = "none")
            => ValidAt(mem, from_token(op'.c), VirtAddr_floor(op'.a))]_vars

============================================================================
